---------------------------- MODULE Spec2Model ----------------------------
(***************************************************************************)
(* A model of the webdis gateway: the ACL evaluator (src/src/acl.rs), the  *)
(* HTTP command dispatcher (src/src/handler.rs), the WebSocket frontend    *)
(* (src/src/websocket.rs), the backend pool (src/src/redis.rs) and the     *)
(* pub/sub multiplexer (src/src/pubsub.rs).                                *)
(*                                                                         *)
(* Strings are sequences of byte values, as Rust's String/&str are; an     *)
(* Option<T> is a sequence of length 0 (None) or 1 (Some(x)).              *)
(***************************************************************************)
EXTENDS Integers, Sequences, FiniteSets, TLC

VARIABLES
    \* --- ACL evaluator (acl.rs)
    aclRules,      \* Acl.rules: the configured rule list (AppState.acl)
    aclPc,         \* "idle" | "ret": position of a direct caller of Acl::check
    aclReq,        \* the arguments of the last direct call (ip, command, auth_header)
    aclMatched,    \* the value of `matches` for each rule during the last call
    aclResult,     \* the value the last direct call returned
    \* --- pub/sub multiplexer (pubsub.rs)
    channels,      \* PubSubManager.channels: channel name -> broadcast sender
    cmdQueue,      \* the mpsc control channel cmd_tx/cmd_rx: queued Subscribe(channel)
    subs,          \* the broadcast receivers handed out by subscribe, and their holders
    lock,          \* holder of the registry write lock across an await (0: nobody)
    bgPc,          \* position of the background task
    bgMsg,         \* the message the task holds while it waits for the read lock
    upstream,      \* channels subscribed on the current upstream connection
    upLog,         \* history: per channel, the payloads received from upstream
    regAtConnect,  \* history: the registry's channels when the current connection opened
    subIssued,     \* history: channels SUBSCRIBE was issued for on the current connection
    \* --- backend pool (redis.rs) and the request handlers (handler.rs, websocket.rs)
    poolCfg,       \* Config: pool_size_per_thread, http_threads, http_max_request_size
    leased,        \* pool connections currently leased
    http,          \* the HTTP request tasks
    ws,            \* the WebSocket session tasks
    wsActs,        \* history: what WebSocket frames did (backend commands, attachments)
    \* --- startup (config.rs, main.rs, redis.rs)
    boot           \* position of startup, the Config as read and as used, the URLs built

aclVars == <<aclRules, aclPc, aclReq, aclMatched, aclResult>>

psVars == <<channels, cmdQueue, subs, lock, bgPc, bgMsg, upstream, upLog, regAtConnect, subIssued>>

dpVars == <<poolCfg, leased, http, ws, wsActs, boot>>

vars == <<aclVars, psVars, dpVars>>

-----------------------------------------------------------------------------
(* Option<T> *)

None == <<>>

Some(x) == <<x>>

-----------------------------------------------------------------------------
(* Byte strings used as inputs *)

\* "*"
StrStar == <<42>>

\* "DEBUG"
StrDEBUG == <<68, 69, 66, 85, 71>>

\* "debug"
StrDebugLower == <<100, 101, 98, 117, 103>>

\* "GET"
StrGET == <<71, 69, 84>>

\* "Basic "
StrBasicPrefix == <<66, 97, 115, 105, 99, 32>>

\* "u:p", a "user:password" credential
CredUP == <<117, 58, 112>>

\* "Basic dTpw": the Basic header for "u:p"
HdrGood == <<66, 97, 115, 105, 99, 32, 100, 84, 112, 119>>

\* "Basic VTpw": the Basic header for "U:p" (differs from "u:p" in case only)
HdrWrongCase == <<66, 97, 115, 105, 99, 32, 86, 84, 112, 119>>

\* "basic dTpw": right credential, scheme not spelled "Basic "
HdrLowerScheme == <<98, 97, 115, 105, 99, 32, 100, 84, 112, 119>>

\* "Basic dTp": not valid base64 (length not a multiple of 4)
HdrBadBase64 == <<66, 97, 115, 105, 99, 32, 100, 84, 112>>

\* "Basic /w==": base64 of the single byte 0xFF, which is not UTF-8
HdrNotUtf8 == <<66, 97, 115, 105, 99, 32, 47, 119, 61, 61>>

\* 10.0.0.5, inside 10.0.0.0/8
IpInside == <<10, 0, 0, 5>>

\* 127.0.0.1, outside 10.0.0.0/8
IpOutside == <<127, 0, 0, 1>>

\* 10.0.0.0/8
Net10 == [addr |-> <<10, 0, 0, 0>>, prefix |-> 8]

-----------------------------------------------------------------------------
(* str::eq_ignore_ascii_case *)

ToAsciiLower(b) == IF b >= 65 /\ b <= 90 THEN b + 32 ELSE b

\* the comparison with letter case taken into account
EqExactCase(a, b) == a = b

EqIgnoreAsciiCase(a, b) ==
    /\ Len(a) = Len(b)
    /\ \A i \in 1..Len(a) : ToAsciiLower(a[i]) = ToAsciiLower(b[i])

(* str::strip_prefix: Some(rest) when s starts with p, else None *)
StripPrefix(s, p) ==
    IF Len(s) >= Len(p) /\ SubSeq(s, 1, Len(p)) = p
    THEN Some(SubSeq(s, Len(p) + 1, Len(s)))
    ELSE None

-----------------------------------------------------------------------------
(* base64::engine::general_purpose::STANDARD.decode: the standard alphabet,  *)
(* canonical padding required, no trailing bits.  The result is              *)
(* [ok |-> BOOLEAN, bytes |-> the decoded bytes].                            *)

B64Val(c) ==
    IF c >= 65 /\ c <= 90 THEN c - 65
    ELSE IF c >= 97 /\ c <= 122 THEN c - 71
    ELSE IF c >= 48 /\ c <= 57 THEN c + 4
    ELSE IF c = 43 THEN 62
    ELSE IF c = 47 THEN 63
    ELSE -1

B64Err == [ok |-> FALSE, bytes |-> <<>>]

\* one group of four symbols; the last group may carry "=" padding
B64Quad(q, last) ==
    LET a == B64Val(q[1])
        b == B64Val(q[2])
        c == B64Val(q[3])
        d == B64Val(q[4])
    IN  IF a < 0 \/ b < 0 THEN B64Err
        ELSE IF last /\ q[3] = 61 /\ q[4] = 61
             THEN IF b % 16 = 0
                  THEN [ok |-> TRUE, bytes |-> <<a * 4 + b \div 16>>]
                  ELSE B64Err
        ELSE IF c < 0 THEN B64Err
        ELSE IF last /\ q[4] = 61
             THEN IF c % 4 = 0
                  THEN [ok |-> TRUE,
                        bytes |-> <<a * 4 + b \div 16, (b % 16) * 16 + c \div 4>>]
                  ELSE B64Err
        ELSE IF d < 0 THEN B64Err
        ELSE [ok |-> TRUE,
              bytes |-> <<a * 4 + b \div 16, (b % 16) * 16 + c \div 4, (c % 4) * 64 + d>>]

RECURSIVE B64Groups(_)
B64Groups(s) ==
    IF s = <<>> THEN [ok |-> TRUE, bytes |-> <<>>]
    ELSE LET head == B64Quad(SubSeq(s, 1, 4), Len(s) = 4)
             tail == B64Groups(SubSeq(s, 5, Len(s)))
         IN  IF head.ok /\ tail.ok
             THEN [ok |-> TRUE, bytes |-> head.bytes \o tail.bytes]
             ELSE B64Err

Base64Decode(s) == IF Len(s) % 4 # 0 THEN B64Err ELSE B64Groups(s)

-----------------------------------------------------------------------------
(* String::from_utf8: whether the bytes are well-formed UTF-8 *)

IsCont(b) == b >= 128 /\ b <= 191

RECURSIVE Utf8Valid(_)
Utf8Valid(s) ==
    IF s = <<>> THEN TRUE
    ELSE LET b == s[1]
             n == Len(s)
         IN  IF b <= 127 THEN Utf8Valid(SubSeq(s, 2, n))
             ELSE IF b >= 194 /\ b <= 223
                  THEN n >= 2 /\ IsCont(s[2]) /\ Utf8Valid(SubSeq(s, 3, n))
             ELSE IF b >= 224 /\ b <= 239
                  THEN /\ n >= 3
                       /\ IsCont(s[2])
                       /\ IsCont(s[3])
                       /\ (b = 224 => s[2] >= 160)
                       /\ (b = 237 => s[2] <= 159)
                       /\ Utf8Valid(SubSeq(s, 4, n))
             ELSE IF b >= 240 /\ b <= 244
                  THEN /\ n >= 4
                       /\ IsCont(s[2])
                       /\ IsCont(s[3])
                       /\ IsCont(s[4])
                       /\ (b = 240 => s[2] >= 144)
                       /\ (b = 244 => s[2] <= 143)
                       /\ Utf8Valid(SubSeq(s, 5, n))
             ELSE FALSE

\* whether c may follow the lead byte b as the second byte of a sequence
Utf8Second(b, c) ==
    /\ IsCont(c)
    /\ (b = 224 => c >= 160)
    /\ (b = 237 => c <= 159)
    /\ (b = 240 => c >= 144)
    /\ (b = 244 => c <= 143)

\* bytes a well-formed sequence with lead byte b takes, 0 for no lead byte
Utf8Need(b) ==
    IF b <= 127 THEN 1
    ELSE IF b >= 194 /\ b <= 223 THEN 2
    ELSE IF b >= 224 /\ b <= 239 THEN 3
    ELSE IF b >= 240 /\ b <= 244 THEN 4
    ELSE 0

\* length of the longest prefix of s that starts a well-formed sequence
Utf8Prefix(s) ==
    LET need == Utf8Need(s[1])
        n == Len(s)
    IN  IF need <= 1 THEN 1
        ELSE IF n < 2 \/ ~Utf8Second(s[1], s[2]) THEN 1
        ELSE IF need = 2 THEN 2
        ELSE IF n < 3 \/ ~IsCont(s[3]) THEN 2
        ELSE IF need = 3 THEN 3
        ELSE IF n < 4 \/ ~IsCont(s[4]) THEN 3
        ELSE 4

\* U+FFFD REPLACEMENT CHARACTER in UTF-8
Utf8Replacement == <<239, 191, 189>>

\* String::from_utf8_lossy: well-formed sequences are kept, every maximal
\* ill-formed run of a sequence becomes U+FFFD
RECURSIVE Utf8Lossy(_)
Utf8Lossy(s) ==
    IF s = <<>> THEN <<>>
    ELSE LET k == Utf8Prefix(s)
             whole == Utf8Need(s[1]) = k
         IN  (IF whole THEN SubSeq(s, 1, k) ELSE Utf8Replacement)
                 \o Utf8Lossy(SubSeq(s, k + 1, Len(s)))

-----------------------------------------------------------------------------
(* ipnet::IpNet::contains on IPv4: the peer agrees with the network on the  *)
(* first `prefix` bits.  Addresses are four octets.                         *)

IpToInt(o) == ((o[1] * 256 + o[2]) * 256 + o[3]) * 256 + o[4]

RECURSIVE Pow2(_)
Pow2(n) == IF n = 0 THEN 1 ELSE 2 * Pow2(n - 1)

\* prefix 0 keeps no bit: every address is inside
SubnetContains(net, ip) ==
    IF net.prefix = 0 THEN TRUE
    ELSE IpToInt(ip) \div Pow2(32 - net.prefix)
            = IpToInt(net.addr) \div Pow2(32 - net.prefix)

-----------------------------------------------------------------------------
(* Acl::check, src/src/acl.rs *)

\* acl.rs 52-66: the header is present, starts with "Basic ", decodes as
\* base64 to UTF-8 text, and that text is the required credential
AuthMatches(required_auth, auth_header) ==
    IF auth_header = None THEN FALSE
    ELSE LET stripped == StripPrefix(auth_header[1], StrBasicPrefix)
         IN  IF stripped = None THEN FALSE
             ELSE LET decoded == Base64Decode(stripped[1])
                  IN  /\ decoded.ok
                      /\ Utf8Valid(decoded.bytes)
                      /\ decoded.bytes = required_auth

\* acl.rs 42-66: `matches` after the IP block and the Basic-auth block.  The
\* auth block assigns `matches` again, whatever the IP block left in it.
RuleMatches(rule, ip, auth_header) ==
    LET afterIp == IF rule.ip_subnet # None /\ ~SubnetContains(rule.ip_subnet[1], ip)
                   THEN FALSE
                   ELSE TRUE
    IN  IF rule.basic_auth # None
        THEN AuthMatches(rule.basic_auth[1], auth_header)
        ELSE afterIp

\* acl.rs 70-74: the loop over rule.disabled
RECURSIVE DisabledLoop(_, _, _)
DisabledLoop(disabled, command, allowed) ==
    IF disabled = <<>> THEN allowed
    ELSE DisabledLoop(Tail(disabled), command,
                      IF Head(disabled) = StrStar \/ EqIgnoreAsciiCase(Head(disabled), command)
                      THEN FALSE
                      ELSE allowed)

\* acl.rs 77-81: the loop over rule.enabled
RECURSIVE EnabledLoop(_, _, _)
EnabledLoop(enabled, command, allowed) ==
    IF enabled = <<>> THEN allowed
    ELSE EnabledLoop(Tail(enabled), command,
                     IF Head(enabled) = StrStar \/ EqIgnoreAsciiCase(Head(enabled), command)
                     THEN TRUE
                     ELSE allowed)

\* acl.rs 41-83: the loop over the rules
RECURSIVE RulesLoop(_, _, _, _, _)
RulesLoop(rules, ip, command, auth_header, allowed) ==
    IF rules = <<>> THEN allowed
    ELSE LET rule == Head(rules)
             next == IF RuleMatches(rule, ip, auth_header)
                     THEN EnabledLoop(rule.enabled, command,
                                      DisabledLoop(rule.disabled, command, allowed))
                     ELSE allowed
         IN  RulesLoop(Tail(rules), ip, command, auth_header, next)

\* acl.rs 32-86
AclCheck(rules, ip, command, auth_header) ==
    IF rules = <<>> THEN TRUE
    ELSE RulesLoop(rules, ip, command, auth_header, TRUE)

-----------------------------------------------------------------------------
(* The pub/sub multiplexer, src/src/pubsub.rs *)

\* capacity of each broadcast endpoint (broadcast::channel(100), pubsub.rs 106),
\* scaled down
BroadcastCap == 1

\* capacity of the control channel (mpsc::channel(100), pubsub.rs 26), scaled down
CmdQueueCap == 1

MaxSubs == 2

MaxMsgs == 2

\* "a"
ChanA == <<97>>

\* "b"
ChanB == <<98>>

Channels == {ChanA, ChanB}

\* the text payload of the k-th upstream message: "y", "z", ... (all distinct)
PayloadText(k) == <<120 + k>>

\* the byte 0xFF: a payload that is not UTF-8
PayloadBinary == <<255>>

\* what the k-th upstream message may carry
Payloads(k) == {PayloadText(k), PayloadBinary}

SubIds == 1..MaxSubs

\* a receiver slot: `holder` is 0 for an SSE stream and the socket for a
\* WebSocket forwarding task; `log` is what recv yielded, `out` what the
\* holder made of it (SSE events, or frames for the socket's outbound queue)
FreeSub ==
    [st |-> "free", holder |-> 0, ch |-> <<>>, next |-> 0, from |-> 0, log |-> <<>>,
     out |-> <<>>]

\* the slot the next receiver is kept in: the lowest free one, 0 when all are taken
LowestFreeSub ==
    IF \A k \in SubIds : subs[k].st # "free" THEN 0
    ELSE CHOOSE k \in SubIds : subs[k].st = "free" /\ \A j \in 1..(k - 1) : subs[j].st # "free"

\* upstream messages received so far
RECURSIVE SumLen(_, _)
SumLen(f, S) ==
    IF S = {} THEN 0
    ELSE LET c == CHOOSE x \in S : TRUE IN Len(f[c]) + SumLen(f, S \ {c})

MsgCount == SumLen(upLog, Channels)

\* what a receiver yields: a payload, or RecvError::Lagged(missed)
ItemMsg(p) == [kind |-> "msg", data |-> p, missed |-> 0]

ItemLagged(n) == [kind |-> "lagged", data |-> <<>>, missed |-> n]

\* RecvError::Closed: every sender of the endpoint is gone
ItemClosed == [kind |-> "closed", data |-> <<>>, missed |-> 0]

\* the receivers currently alive on a channel (the sender's rx_cnt)
Receivers(ch) ==
    {i \in SubIds : subs[i].st \in {"attached", "blocked", "sending"} /\ subs[i].ch = ch}

\* broadcast::channel(cap): an empty endpoint; `tail` counts the values sent
NewSender == [tail |-> 0, buf |-> <<>>]

LastN(q, n) == IF Len(q) <= n THEN q ELSE SubSeq(q, Len(q) - n + 1, Len(q))

\* broadcast::Sender::send (pubsub.rs 81): without a receiver the value is
\* returned in an error and nothing is stored; otherwise it is stored and the
\* oldest value is overwritten once `cap` values are retained
BroadcastSend(sender, rxCount, payload) ==
    IF rxCount = 0 THEN sender
    ELSE [tail |-> sender.tail + 1, buf |-> LastN(Append(sender.buf, payload), BroadcastCap)]

\* position of the oldest value the endpoint retains
Oldest(sender) == sender.tail - Len(sender.buf) + 1

\* broadcast::Receiver::recv on a receiver whose cursor is `next`: a Lagged
\* error moving the cursor to the oldest retained value, or the next value;
\* nothing when the receiver has caught up (recv stays pending)
RecvReady(sender, next) == next <= sender.tail

RecvItem(sender, next) ==
    IF next < Oldest(sender)
    THEN ItemLagged(Oldest(sender) - next)
    ELSE ItemMsg(sender.buf[next - Oldest(sender) + 1])

RecvCursor(sender, next) ==
    IF next < Oldest(sender) THEN Oldest(sender) ELSE next + 1

\* recv on the receiver of slot i: Closed when the registry no longer holds the
\* endpoint's sender
SubRecvReady(i) ==
    subs[i].ch \in DOMAIN channels => RecvReady(channels[subs[i].ch], subs[i].next)

SubRecvItem(i) ==
    IF subs[i].ch \in DOMAIN channels
    THEN RecvItem(channels[subs[i].ch], subs[i].next)
    ELSE ItemClosed

SubRecvCursor(i) ==
    IF subs[i].ch \in DOMAIN channels
    THEN RecvCursor(channels[subs[i].ch], subs[i].next)
    ELSE subs[i].next

\* "error"
StrError == <<101, 114, 114, 111, 114>>

\* "lagged"
StrLagged == <<108, 97, 103, 103, 101, 100>>

\* a faulty stream, for contrast: it ends at the first Lagged
SseContinuesUntilLagged(item) == item.kind = "msg"

\* handle_subscribe, pubsub.rs 122-126: the event the SSE stream yields for
\* what recv returned (none for Closed), and whether the loop goes on
SseEvent(item) ==
    IF item.kind = "msg" THEN <<[event |-> None, data |-> item.data]>>
    ELSE IF item.kind = "lagged" THEN <<[event |-> Some(StrError), data |-> StrLagged]>>
    ELSE <<>>

SseContinues(item) == item.kind # "closed"

\* msg.get_payload::<String>() (pubsub.rs 71-77): the payload as text, or an
\* error when its bytes are not UTF-8
PayloadOk(p) == Utf8Valid(p)

PubSubInit ==
    /\ channels = <<>>
    /\ cmdQueue = <<>>
    /\ subs = [i \in SubIds |-> FreeSub]
    /\ lock = 0
    /\ bgPc = "connect"
    /\ bgMsg = None
    /\ upstream = {}
    /\ upLog = [c \in Channels |-> <<>>]
    /\ regAtConnect = {}
    /\ subIssued = {}

\* subscribe without the lookup of the channel: every call inserts an
\* endpoint and sends a command
SubscribeForAlwaysCreates(i, ch, holder) ==
    /\ i = LowestFreeSub
    /\ lock = 0
    /\ channels' = (ch :> NewSender) @@ [c \in DOMAIN channels \ {ch} |-> channels[c]]
    /\ IF Len(cmdQueue) < CmdQueueCap
       THEN /\ cmdQueue' = Append(cmdQueue, ch)
            /\ subs' = [subs EXCEPT ![i] = [FreeSub EXCEPT !.st = "attached",
                                                           !.holder = holder,
                                                           !.ch = ch, !.next = 1,
                                                           !.from = Len(upLog[ch])]]
            /\ UNCHANGED lock
       ELSE /\ subs' = [subs EXCEPT ![i] = [FreeSub EXCEPT !.st = "blocked",
                                                           !.holder = holder,
                                                           !.ch = ch, !.next = 1,
                                                           !.from = Len(upLog[ch])]]
            /\ lock' = i
            /\ UNCHANGED cmdQueue
    /\ UNCHANGED <<bgPc, bgMsg, upstream, upLog, regAtConnect, subIssued>>

\* PubSubManager::subscribe (pubsub.rs 101-111) for the holder of slot i.  It
\* takes the write lock; on an existing channel it returns a new receiver of
\* the endpoint; otherwise it inserts a new endpoint and sends
\* Subscribe(channel) on the control channel, keeping the write lock while the
\* send waits for room.
SubscribeFor(i, ch, holder) ==
    /\ i = LowestFreeSub
    /\ lock = 0
    /\ IF ch \in DOMAIN channels
       THEN /\ subs' = [subs EXCEPT ![i] = [FreeSub EXCEPT !.st = "attached",
                                                           !.holder = holder, !.ch = ch,
                                                           !.next = channels[ch].tail + 1,
                                                           !.from = Len(upLog[ch])]]
            /\ UNCHANGED <<channels, cmdQueue, lock>>
       ELSE /\ channels' = (ch :> NewSender) @@ channels
            /\ IF Len(cmdQueue) < CmdQueueCap
               THEN /\ cmdQueue' = Append(cmdQueue, ch)
                    /\ subs' = [subs EXCEPT ![i] = [FreeSub EXCEPT !.st = "attached",
                                                                   !.holder = holder,
                                                                   !.ch = ch, !.next = 1,
                                                                   !.from = Len(upLog[ch])]]
                    /\ UNCHANGED lock
               ELSE /\ subs' = [subs EXCEPT ![i] = [FreeSub EXCEPT !.st = "blocked",
                                                                   !.holder = holder,
                                                                   !.ch = ch, !.next = 1,
                                                                   !.from = Len(upLog[ch])]]
                    /\ lock' = i
                    /\ UNCHANGED cmdQueue
    /\ UNCHANGED <<bgPc, bgMsg, upstream, upLog, regAtConnect, subIssued>>

\* handle_subscribe, pubsub.rs 118: an SSE request subscribes
Subscribe(i, ch) == SubscribeFor(i, ch, 0)

\* pubsub.rs 108: the send on the control channel completes once there is room
SubscribeSendCompletes(i) ==
    /\ subs[i].st = "blocked"
    /\ Len(cmdQueue) < CmdQueueCap
    /\ cmdQueue' = Append(cmdQueue, subs[i].ch)
    /\ subs' = [subs EXCEPT ![i].st = "attached"]
    /\ lock' = 0
    /\ UNCHANGED <<channels, bgPc, bgMsg, upstream, upLog,
                   regAtConnect, subIssued>>

\* rx.recv().await in an SSE stream (pubsub.rs 122-126): the item becomes an
\* event; on Closed the stream ends
SubscriberRecv(i) ==
    /\ subs[i].st = "attached"
    /\ subs[i].holder = 0
    /\ SubRecvReady(i)
    /\ subs' = [subs EXCEPT
                  ![i].log = Append(@, SubRecvItem(i)),
                  ![i].out = @ \o SseEvent(SubRecvItem(i)),
                  ![i].next = SubRecvCursor(i),
                  ![i].st = IF SseContinues(SubRecvItem(i)) THEN "attached" ELSE "ended"]
    /\ UNCHANGED <<channels, cmdQueue, lock, bgPc, bgMsg, upstream, upLog,
                   regAtConnect, subIssued>>

\* the client goes away and its receiver is dropped.  Nothing else runs: the
\* manager has no release operation and Command has no Unsubscribe variant
\* (pubsub.rs 19-22).
SubscriberDrop(i) ==
    /\ subs[i].st = "attached"
    /\ subs[i].holder = 0
    /\ subs' = [subs EXCEPT ![i] = [FreeSub EXCEPT !.st = "dropped"]]
    /\ UNCHANGED <<channels, cmdQueue, lock, bgPc, bgMsg, upstream, upLog,
                   regAtConnect, subIssued>>

\* pubsub.rs 34-43, Ok: a fresh upstream connection, subscribed to nothing
BgConnectOk ==
    /\ bgPc = "connect"
    /\ bgPc' = "commands"
    /\ upstream' = {}
    /\ regAtConnect' = DOMAIN channels
    /\ subIssued' = {}
    /\ UNCHANGED <<bgMsg, channels, cmdQueue, subs, lock, upLog>>

\* pubsub.rs 36-40, Err: log, sleep 5 seconds
BgConnectFail ==
    /\ bgPc = "connect"
    /\ bgPc' = "sleep"
    /\ UNCHANGED <<bgMsg, channels, cmdQueue, subs, lock, upstream, upLog,
                   regAtConnect, subIssued>>

\* pubsub.rs 38-39: the sleep ends, `continue` retries the connection
BgSleepEnds ==
    /\ bgPc = "sleep"
    /\ bgPc' = "connect"
    /\ UNCHANGED <<bgMsg, channels, cmdQueue, subs, lock, upstream, upLog,
                   regAtConnect, subIssued>>

\* pubsub.rs 47-57: one turn of `while let Ok(cmd) = cmd_rx.try_recv()`; the
\* upstream SUBSCRIBE succeeds or fails, and a failure is only logged
BgCommand(ok) ==
    /\ bgPc = "commands"
    /\ cmdQueue # <<>>
    /\ cmdQueue' = Tail(cmdQueue)
    /\ upstream' = IF ok THEN upstream \cup {Head(cmdQueue)} ELSE upstream
    /\ subIssued' = subIssued \cup {Head(cmdQueue)}
    /\ UNCHANGED <<channels, subs, lock, bgPc, bgMsg, upLog, regAtConnect>>

\* pubsub.rs 47: try_recv finds the control channel empty
BgCommandsDone ==
    /\ bgPc = "commands"
    /\ cmdQueue = <<>>
    /\ bgPc' = "listen"
    /\ UNCHANGED <<bgMsg, channels, cmdQueue, subs, lock, upstream, upLog,
                   regAtConnect, subIssued>>

\* pubsub.rs 79-82: under the read lock, look the channel up and send
Dispatch(ch, payload) ==
    IF ch \in DOMAIN channels
    THEN [channels EXCEPT ![ch] = BroadcastSend(@, Cardinality(Receivers(ch)), payload)]
    ELSE channels

\* pubsub.rs 63-83: the upstream yields a message for a subscribed channel.  A
\* payload that is not text is logged and skipped; a text payload is
\* dispatched under the registry read lock (79).  While a subscribe call holds
\* the write lock (102-108) the task waits at `channels_clone.read().await`,
\* holding the message it took from the stream.
BgMessage(ch, payload) ==
    /\ bgPc = "listen"
    /\ ch \in upstream
    /\ MsgCount < MaxMsgs
    /\ upLog' = [upLog EXCEPT ![ch] = Append(@, payload)]
    /\ IF PayloadOk(payload) /\ lock # 0
       THEN /\ bgPc' = "readlock"
            /\ bgMsg' = Some([ch |-> ch, payload |-> payload])
            /\ UNCHANGED channels
       ELSE /\ channels' = IF PayloadOk(payload) THEN Dispatch(ch, payload) ELSE channels
            /\ bgPc' = "commands"
            /\ UNCHANGED bgMsg
    /\ UNCHANGED <<cmdQueue, subs, lock, upstream, regAtConnect, subIssued>>

\* pubsub.rs 79-83: the write lock was released, the task takes the read
\* lock and dispatches the message it holds
BgReadLocked ==
    /\ bgPc = "readlock"
    /\ lock = 0
    /\ channels' = Dispatch(bgMsg[1].ch, bgMsg[1].payload)
    /\ bgMsg' = None
    /\ bgPc' = "commands"
    /\ UNCHANGED <<cmdQueue, subs, lock, upstream, upLog, regAtConnect, subIssued>>

\* pubsub.rs 88-91: no message within 100 ms, back to the control channel
BgTimeout ==
    /\ bgPc = "listen"
    /\ bgPc' = "commands"
    /\ UNCHANGED <<bgMsg, channels, cmdQueue, subs, lock, upstream, upLog,
                   regAtConnect, subIssued>>

\* a faulty task, for contrast: at the end of the upstream stream it drops the
\* registry, and with it every endpoint's sender
BgStreamEndedClosesEndpoints ==
    /\ bgPc = "listen"
    /\ bgPc' = "connect"
    /\ upstream' = {}
    /\ channels' = <<>>
    /\ UNCHANGED <<bgMsg, cmdQueue, subs, lock, upLog, regAtConnect, subIssued>>

\* pubsub.rs 84-87: the upstream stream ends; the connection, and with it its
\* subscriptions, is dropped and the outer loop connects again
BgStreamEnded ==
    /\ bgPc = "listen"
    /\ bgPc' = "connect"
    /\ upstream' = {}
    /\ UNCHANGED <<bgMsg, channels, cmdQueue, subs, lock, upLog,
                   regAtConnect, subIssued>>

-----------------------------------------------------------------------------
(* The backend pool, src/src/redis.rs *)

\* redis.rs 19: unwrap_or(10) and unwrap_or(4)
DefaultPoolSizePerThread == 10

DefaultHttpThreads == 4

UnwrapOr(opt, default) == IF opt = None THEN default ELSE opt[1]

\* redis.rs 19-20: the pool's max_size
PoolSize(cfg) ==
    UnwrapOr(cfg.pool_size_per_thread, DefaultPoolSizePerThread)
        * UnwrapOr(cfg.http_threads, DefaultHttpThreads)

\* a faulty pool, for contrast: it hands out a connection to every caller
PoolHasRoomUnlimited == TRUE

\* Pool::get (handler.rs 73, websocket.rs 88): a connection is handed out only
\* while fewer than max_size are out; otherwise the caller waits
PoolHasRoom == leased < PoolSize(poolCfg)

-----------------------------------------------------------------------------
(* Request parsing in process_request, src/src/handler.rs 85-125 *)

\* "/"
ByteSlash == 47

\* "."
ByteDot == 46

\* str::split(sep): the pieces between separators, at least one piece
RECURSIVE SplitFrom(_, _, _)
SplitFrom(s, sep, piece) ==
    IF s = <<>> THEN <<piece>>
    ELSE IF Head(s) = sep THEN <<piece>> \o SplitFrom(Tail(s), sep, <<>>)
    ELSE SplitFrom(Tail(s), sep, Append(piece, Head(s)))

Split(s, sep) == SplitFrom(s, sep, <<>>)

\* a faulty search, for contrast: the first position of c
FindFirst(s, c) ==
    IF \E i \in 1..Len(s) : s[i] = c
    THEN CHOOSE i \in 1..Len(s) : s[i] = c /\ \A j \in 1..(i - 1) : s[j] # c
    ELSE 0

\* str::rfind(c): the last position of c (1-based), 0 when there is none
RFind(s, c) ==
    IF \E i \in 1..Len(s) : s[i] = c
    THEN CHOOSE i \in 1..Len(s) : s[i] = c /\ \A j \in (i + 1)..Len(s) : s[j] # c
    ELSE 0

\* "raw"
StrRaw == <<114, 97, 119>>

\* "msg"
StrMsg == <<109, 115, 103>>

\* "msgpack"
StrMsgpack == <<109, 115, 103, 112, 97, 99, 107>>

\* "json"
StrJson == <<106, 115, 111, 110>>

\* a faulty mapping, for contrast: "msgpack" is not known
FromExtensionShort(ext) ==
    IF ext = StrRaw THEN "Raw"
    ELSE IF ext = StrMsg THEN "MessagePack"
    ELSE "Json"

\* OutputFormat::from_extension, format.rs 16-22
FromExtension(ext) ==
    IF ext = StrRaw THEN "Raw"
    ELSE IF ext = StrMsg \/ ext = StrMsgpack THEN "MessagePack"
    ELSE "Json"

\* a faulty parser, for contrast: ?type is applied only when the path
\* selected no format other than JSON
ParseCommandExtensionWins(command, type_param) ==
    LET parts == Split(command, ByteSlash)
        cmd0 == parts[1]
        args0 == Tail(parts)
        dot == RFind(cmd0, ByteDot)
        last == IF args0 = <<>> THEN <<>> ELSE args0[Len(args0)]
        ldot == RFind(last, ByteDot)
        lext == SubSeq(last, ldot + 1, Len(last))
        strip == /\ dot = 0
                 /\ args0 # <<>>
                 /\ ldot > 0
                 /\ (FromExtension(lext) # "Json" \/ lext = StrJson)
        byExt == IF dot > 0 THEN FromExtension(SubSeq(cmd0, dot + 1, Len(cmd0)))
                 ELSE IF strip THEN FromExtension(lext)
                 ELSE "Json"
    IN  [cmd_name |-> IF dot > 0 THEN SubSeq(cmd0, 1, dot - 1) ELSE cmd0,
         args |-> IF strip
                  THEN [args0 EXCEPT ![Len(args0)] = SubSeq(last, 1, ldot - 1)]
                  ELSE args0,
         format |-> IF type_param # None /\ byExt = "Json"
                    THEN FromExtension(type_param[1]) ELSE byExt]

\* handler.rs 85-125: command name, arguments and output format of a path
ParseCommand(command, type_param) ==
    LET parts == Split(command, ByteSlash)
        cmd0 == parts[1]
        args0 == Tail(parts)
        dot == RFind(cmd0, ByteDot)
        last == IF args0 = <<>> THEN <<>> ELSE args0[Len(args0)]
        ldot == RFind(last, ByteDot)
        lext == SubSeq(last, ldot + 1, Len(last))
        strip == /\ dot = 0
                 /\ args0 # <<>>
                 /\ ldot > 0
                 /\ (FromExtension(lext) # "Json" \/ lext = StrJson)
        byExt == IF dot > 0 THEN FromExtension(SubSeq(cmd0, dot + 1, Len(cmd0)))
                 ELSE IF strip THEN FromExtension(lext)
                 ELSE "Json"
    IN  [cmd_name |-> IF dot > 0 THEN SubSeq(cmd0, 1, dot - 1) ELSE cmd0,
         args |-> IF strip
                  THEN [args0 EXCEPT ![Len(args0)] = SubSeq(last, 1, ldot - 1)]
                  ELSE args0,
         format |-> IF type_param # None THEN FromExtension(type_param[1]) ELSE byExt]

-----------------------------------------------------------------------------
(* Replies: conversion (handler.rs 166-177) and serialization (format.rs)  *)

\* redis::Value, the reply of the backend
RNil == [t |-> "Nil", i |-> 0, b |-> <<>>, items |-> <<>>]

RInt(i) == [t |-> "Int", i |-> i, b |-> <<>>, items |-> <<>>]

RData(b) == [t |-> "Data", i |-> 0, b |-> b, items |-> <<>>]

RBulk(items) == [t |-> "Bulk", i |-> 0, b |-> <<>>, items |-> items]

RStatus(b) == [t |-> "Status", i |-> 0, b |-> b, items |-> <<>>]

ROkay == [t |-> "Okay", i |-> 0, b |-> <<>>, items |-> <<>>]

\* serde_json::Value
JNull == [t |-> "Null", n |-> 0, s |-> <<>>, a |-> <<>>]

JNumber(n) == [t |-> "Number", n |-> n, s |-> <<>>, a |-> <<>>]

JString(s) == [t |-> "String", n |-> 0, s |-> s, a |-> <<>>]

JBool(b) == [t |-> "Bool", n |-> IF b THEN 1 ELSE 0, s |-> <<>>, a |-> <<>>]

JArray(a) == [t |-> "Array", n |-> 0, s |-> <<>>, a |-> a]

\* "OK"
StrOK == <<79, 75>>

\* redis_value_to_json, handler.rs 166-177
RECURSIVE RedisValueToJson(_)
RedisValueToJson(v) ==
    CASE v.t = "Nil" -> JNull
      [] v.t = "Int" -> JNumber(v.i)
      [] v.t = "Data" -> JString(Utf8Lossy(v.b))
      [] v.t = "Bulk" -> JArray([k \in 1..Len(v.items) |-> RedisValueToJson(v.items[k])])
      [] v.t = "Status" -> JString(v.b)
      [] v.t = "Okay" -> JString(StrOK)

\* the decimal digits of a natural number
RECURSIVE Digits(_)
Digits(n) == IF n < 10 THEN <<48 + n>> ELSE Append(Digits(n \div 10), 48 + (n % 10))

\* Number::to_string of an integer
NumberToString(n) == IF n < 0 THEN <<45>> \o Digits(-n) ELSE Digits(n)

\* "true", "false"
BoolToString(n) == IF n = 1 THEN <<116, 114, 117, 101>> ELSE <<102, 97, 108, 115, 101>>

\* [String]::join("\n")
RECURSIVE JoinLines(_)
JoinLines(strings) ==
    IF strings = <<>> THEN <<>>
    ELSE IF Len(strings) = 1 THEN strings[1]
    ELSE strings[1] \o <<10>> \o JoinLines(Tail(strings))

\* format.rs 49-54: an element of an array in RAW; anything that is no
\* string, number or boolean becomes the empty string
RawElement(v) ==
    CASE v.t = "String" -> v.s
      [] v.t = "Number" -> NumberToString(v.n)
      [] v.t = "Bool" -> BoolToString(v.n)
      [] OTHER -> <<>>

\* format.rs 41-59: the body in RAW
RawBody(value) ==
    CASE value.t = "String" -> value.s
      [] value.t = "Number" -> NumberToString(value.n)
      [] value.t = "Bool" -> BoolToString(value.n)
      [] value.t = "Null" -> <<>>
      [] value.t = "Array" -> JoinLines([k \in 1..Len(value.a) |-> RawElement(value.a[k])])

\* a response: status, the text of an {"error": text} body, whether
\* Access-Control-Allow-Origin is present, Content-Type, and the body: the
\* JSONP callback before the object, the object's key and value, or the text
NoResponse ==
    [status |-> 0, error |-> "", cors |-> FALSE, ctype |-> "", cb |-> None,
     key |-> <<>>, value |-> JNull, text |-> <<>>]

\* (status, Json(json!({"error": text}))).into_response()
ErrorResponse(status, error) ==
    [NoResponse EXCEPT !.status = status, !.error = error, !.ctype = "application/json"]

\* OutputFormat::format_response, format.rs 24-76
FormatResponse(format, command, value, callback) ==
    CASE format = "Json" ->
            [NoResponse EXCEPT !.status = 200, !.key = command, !.value = value,
                               !.cb = callback,
                               !.ctype = IF callback # None
                                         THEN "application/javascript; charset=utf-8"
                                         ELSE "application/json"]
      [] format = "Raw" ->
            [NoResponse EXCEPT !.status = 200, !.text = RawBody(value),
                               !.ctype = "text/plain"]
      [] format = "MessagePack" ->
            [NoResponse EXCEPT !.status = 200, !.key = command, !.value = value,
                               !.ctype = "application/x-msgpack"]

-----------------------------------------------------------------------------
(* Configuration and startup, src/src/config.rs, redis.rs 6-23, main.rs 126-139 *)

\* "redis", "rediss", "://"
StrRedis == <<114, 101, 100, 105, 115>>

StrRediss == <<114, 101, 100, 105, 115, 115>>

StrSchemeSep == <<58, 47, 47>>

\* default_redis_host: "127.0.0.1"
RedisHost == <<49, 50, 55, 46, 48, 46, 48, 46, 49>>

\* default_redis_port
RedisPort == 6379

\* a faulty aliasing, for contrast: the legacy key wins whenever it is given
ApplyLegacyAliasesLegacyWins(cfg) ==
    [cfg EXCEPT
        !.http_threads = IF cfg.legacy_http_threads # None
                         THEN cfg.legacy_http_threads ELSE cfg.http_threads,
        !.legacy_http_threads = None,
        !.pool_size_per_thread = IF cfg.legacy_pool_size_per_thread # None
                                 THEN cfg.legacy_pool_size_per_thread
                                 ELSE cfg.pool_size_per_thread,
        !.legacy_pool_size_per_thread = None]

\* Config::apply_legacy_aliases, config.rs 131-143
ApplyLegacyAliases(cfg) ==
    LET threads == cfg.http_threads = None /\ cfg.legacy_http_threads # None
        pool == cfg.pool_size_per_thread = None /\ cfg.legacy_pool_size_per_thread # None
    IN  [cfg EXCEPT
            !.http_threads = IF threads THEN cfg.legacy_http_threads ELSE cfg.http_threads,
            !.legacy_http_threads = None,
            !.pool_size_per_thread = IF pool THEN cfg.legacy_pool_size_per_thread
                                     ELSE cfg.pool_size_per_thread,
            !.legacy_pool_size_per_thread = None]

\* config.rs 98-102, redis.rs 7-11: ssl.as_ref().map(|s| s.enabled).unwrap_or(false)
UrlScheme(cfg) == IF cfg.ssl # None /\ cfg.ssl[1].enabled THEN StrRediss ELSE StrRedis

\* config.rs 104-116: auth_str
AuthStr(cfg) ==
    IF cfg.redis_auth = None THEN <<>>
    ELSE IF cfg.redis_auth[1].kind = "Legacy"
    THEN <<58>> \o cfg.redis_auth[1].creds[1] \o <<64>>
    ELSE IF Len(cfg.redis_auth[1].creds) = 2
    THEN cfg.redis_auth[1].creds[1] \o <<58>> \o cfg.redis_auth[1].creds[2] \o <<64>>
    ELSE <<>>

\* Config::get_redis_url, config.rs 97-122
GetRedisUrl(cfg) ==
    UrlScheme(cfg) \o StrSchemeSep \o AuthStr(cfg) \o RedisHost \o <<58>>
        \o NumberToString(RedisPort) \o <<47>> \o NumberToString(cfg.database)

\* create_pool, redis.rs 13-16: the URL of the pooled connections
CreatePoolUrl(cfg) ==
    UrlScheme(cfg) \o StrSchemeSep \o RedisHost \o <<58>>
        \o NumberToString(RedisPort) \o <<47>> \o NumberToString(cfg.database)

\* str::parse::<u8> of a plain decimal text: None when the text is empty,
\* holds a byte that is no digit, or denotes a number above 255
RECURSIVE DecimalValue(_)
DecimalValue(s) == IF s = <<>> THEN 0 ELSE 10 * DecimalValue(SubSeq(s, 1, Len(s) - 1)) + (s[Len(s)] - 48)

ParseU8(s) ==
    IF s # <<>> /\ Len(s) <= 3 /\ (\A k \in 1..Len(s) : s[k] >= 48 /\ s[k] <= 57)
                /\ DecimalValue(s) <= 255
    THEN Some(DecimalValue(s))
    ELSE None

\* str::parse::<Ipv4Addr>: four decimal octets separated by dots
ParseIpv4(s) ==
    LET octets == Split(s, ByteDot)
    IN  IF Len(octets) = 4 /\ (\A k \in 1..4 : ParseU8(octets[k]) # None)
        THEN Some([k \in 1..4 |-> ParseU8(octets[k])[1]])
        ELSE None

\* str::parse::<ipnet::IpNet> (acl.rs 20): an address, a slash and a prefix
\* length of at most 32; a text without the slash is not a network
ParseIpNet(s) ==
    LET parts == Split(s, ByteSlash)
    IN  IF /\ Len(parts) = 2
           /\ ParseIpv4(parts[1]) # None
           /\ ParseU8(parts[2]) # None
           /\ ParseU8(parts[2])[1] <= 32
        THEN Some([addr |-> ParseIpv4(parts[1])[1], prefix |-> ParseU8(parts[2])[1]])
        ELSE None

\* Acl::new, acl.rs 16-30: one rule per configured entry; `ip` goes through
\* and_then(|ip| ip.parse().ok()), the lists through unwrap_or_default
AclNew(config) ==
    IF config = None THEN <<>>
    ELSE [k \in 1..Len(config[1]) |->
             LET c == config[1][k]
             IN  [ip_subnet |-> IF c.ip = None THEN None ELSE ParseIpNet(c.ip[1]),
                  basic_auth |-> c.http_basic_auth,
                  enabled |-> IF c.enabled = None THEN <<>> ELSE c.enabled[1],
                  disabled |-> IF c.disabled = None THEN <<>> ELSE c.disabled[1]]]

\* startup is over
Booted ==
    [pc |-> "serving", file |-> None, config |-> None, pool_url |-> None,
     pool_size |-> 0, pubsub_url |-> None]

\* Config::new, config.rs 87-95: deserialize the file, then apply the aliases
BootLoad ==
    /\ boot.pc = "start"
    /\ boot' = [boot EXCEPT !.pc = "loaded",
                            !.config = Some(ApplyLegacyAliases(boot.file[1]))]
    /\ UNCHANGED <<aclVars, psVars, poolCfg, leased, http, ws, wsActs>>

\* async_main, main.rs 127-133: redis::create_pool(&config)
BootCreatePool ==
    /\ boot.pc = "loaded"
    /\ boot' = [boot EXCEPT !.pc = "pooled",
                            !.pool_url = Some(CreatePoolUrl(boot.config[1])),
                            !.pool_size = PoolSize(boot.config[1])]
    /\ UNCHANGED <<aclVars, psVars, poolCfg, leased, http, ws, wsActs>>

\* async_main, main.rs 136-139: the dedicated pub/sub client
BootPubSubClient ==
    /\ boot.pc = "pooled"
    /\ boot' = [boot EXCEPT !.pc = "connected",
                            !.pubsub_url = Some(GetRedisUrl(boot.config[1]))]
    /\ UNCHANGED <<aclVars, psVars, poolCfg, leased, http, ws, wsActs>>

\* async_main, main.rs 141-145: the shared state with the ACL built from the
\* configuration; the server then listens
BootAppState ==
    /\ boot.pc = "connected"
    /\ boot' = [boot EXCEPT !.pc = "serving"]
    /\ aclRules' = AclNew(boot.config[1].acl)
    /\ UNCHANGED <<aclPc, aclReq, aclMatched, aclResult>>
    /\ UNCHANGED <<psVars, poolCfg, leased, http, ws, wsActs>>

-----------------------------------------------------------------------------
(* The HTTP command handler, process_request in src/src/handler.rs *)

MaxHttp == 1

HttpIds == 1..MaxHttp

\* "DEBUG/k"
PathDebug == <<68, 69, 66, 85, 71, 47, 107>>

\* "GET/k"
PathGet == <<71, 69, 84, 47, 107>>

HttpPaths == {PathDebug, PathGet}

HttpHeaders == {None, Some(HdrGood)}

\* the ACL of the integration tests (integration_test.rs 107-115, with the
\* credential "u:p"): DEBUG disabled, and enabled again for the credential
TestAcl ==
    <<[ip_subnet |-> None, basic_auth |-> None, enabled |-> <<>>, disabled |-> <<StrDEBUG>>],
      [ip_subnet |-> None, basic_auth |-> Some(CredUP), enabled |-> <<StrDEBUG>>,
       disabled |-> <<>>]>>

\* everything is disabled for peers in 10.0.0.0/8
SubnetAcl ==
    <<[ip_subnet |-> Some(Net10), basic_auth |-> None, enabled |-> <<>>,
       disabled |-> <<StrStar>>]>>

\* Query<HashMap<String, String>> (handler.rs 39, 49, 59): the query
\* parameters the claims are about, each absent or present with a value
NoParams == [type |-> None, cb |-> None, callback |-> None]

IdleHttp ==
    [pc |-> "idle", method |-> "GET", ip |-> IpInside, auth_header |-> None,
     command |-> <<>>, params |-> NoParams, req_body |-> <<>>, body |-> None, cmd_name |-> <<>>, args |-> <<>>,
     format |-> "Json", issued |-> FALSE, reply |-> RNil, resp |-> NoResponse]

\* main.rs 174: unwrap_or(128 * 1024 * 1024)
DefaultHttpMaxRequestSize == 128 * 1024 * 1024

\* a faulty limit, for contrast: the configured size is not consulted
BodyLimitUnconfigured(cfg) == DefaultHttpMaxRequestSize

\* main.rs 172-176: the limit DefaultBodyLimit is built with
BodyLimit(cfg) == UnwrapOr(cfg.http_max_request_size, DefaultHttpMaxRequestSize)

\* handle_get passes no body, handle_post and handle_put the request's body
\* (handler.rs 37-64)
HandlerBody(method, body) == IF method = "GET" THEN None ELSE Some(body)

\* handler.rs 127-132: a body that is not empty is converted with
\* String::from_utf8_lossy and pushed as the last argument
AppendBody(args, body) ==
    IF body # None /\ body[1] # <<>> THEN Append(args, Utf8Lossy(body[1])) ELSE args

\* handler.rs 117-149: of the query parameters only `type` is read; the call
\* of format_response at 149 names a command and a value and no callback
HandlerCallback(params) == None

\* handler.rs 135: the arguments the handler gives Acl::check are the peer
\* address and the command name; no Authorization header reaches the evaluator
HandlerAuthHeader(r) == None

\* the `body: Bytes` argument of handle_post and handle_put (handler.rs 42,
\* 52) under the DefaultBodyLimit layer (main.rs 172-176): a body longer than
\* the limit is not handed to the handler; handle_get has no body argument
BodyRejected(method, body, cfg) ==
    HandlerBody(method, body) # None /\ Len(body) > BodyLimit(cfg)

\* a request is routed to handle_get, handle_post or handle_put.  When the
\* body is over the limit the answer is 413 and the handler does not run;
\* otherwise process_request starts: it awaits Pool::get (handler.rs 73)
HttpArrive(r, method, ip, hdr, command, body, params) ==
    /\ http[r].pc = "idle"
    /\ http' = [http EXCEPT ![r] =
                  IF BodyRejected(method, body, poolCfg)
                  THEN [IdleHttp EXCEPT !.pc = "done", !.method = method,
                                        !.ip = ip, !.auth_header = hdr,
                                        !.command = command, !.params = params,
                                        !.req_body = body,
                                        !.resp = [NoResponse EXCEPT
                                                    !.status = 413,
                                                    !.error = "length limit exceeded",
                                                    !.ctype = "text/plain"]]
                  ELSE [IdleHttp EXCEPT !.pc = "lease", !.method = method,
                                        !.ip = ip, !.auth_header = hdr,
                                        !.command = command, !.params = params,
                                        !.req_body = body,
                                        !.body = HandlerBody(method, body)]]
    /\ UNCHANGED <<boot, poolCfg, leased, ws, wsActs>>

\* handler.rs 73-82, Err: 503 with the pool's error, returned before the CORS
\* header is attached
HttpLeaseFail(r) ==
    /\ http[r].pc = "lease"
    /\ PoolHasRoom
    /\ http' = [http EXCEPT ![r].pc = "done",
                            ![r].resp = ErrorResponse(503, "pool")]
    /\ UNCHANGED <<boot, poolCfg, leased, ws, wsActs>>

\* handler.rs 73-144, Ok: with the connection in hand the handler splits the
\* path (400 when the split yields no piece), derives name, arguments and
\* format, appends the body, checks the ACL and writes the command to the
\* backend; a denied command is answered 403 and the connection goes back to
\* the pool
HttpLeased(r) ==
    /\ http[r].pc = "lease"
    /\ PoolHasRoom
    /\ IF Split(http[r].command, ByteSlash) = <<>>
       THEN /\ http' = [http EXCEPT
                          ![r].pc = "done",
                          ![r].resp = ErrorResponse(400, "Empty command")]
            /\ UNCHANGED leased
       ELSE LET parsed == ParseCommand(http[r].command, http[r].params.type)
                args == AppendBody(parsed.args, http[r].body)
                allowed == AclCheck(aclRules, http[r].ip, parsed.cmd_name,
                                    HandlerAuthHeader(r))
            IN  IF ~allowed
                THEN /\ http' = [http EXCEPT
                                   ![r].pc = "done",
                                   ![r].cmd_name = parsed.cmd_name,
                                   ![r].args = args,
                                   ![r].format = parsed.format,
                                   ![r].resp = ErrorResponse(403, "Forbidden")]
                     /\ UNCHANGED leased
                ELSE /\ http' = [http EXCEPT
                                   ![r].pc = "exec",
                                   ![r].cmd_name = parsed.cmd_name,
                                   ![r].args = args,
                                   ![r].format = parsed.format,
                                   ![r].issued = TRUE]
                     /\ leased' = leased + 1
    /\ UNCHANGED <<boot, poolCfg, ws, wsActs>>

\* the reply step with the connection kept when the backend fails
HttpReplyKeepsOnError(r, ok, val) ==
    /\ http[r].pc = "exec"
    /\ LET response == IF ok
                       THEN FormatResponse(http[r].format, http[r].cmd_name,
                                           RedisValueToJson(val), HandlerCallback(http[r].params))
                       ELSE ErrorResponse(500, "backend")
       IN  http' = [http EXCEPT
                      ![r].pc = "done",
                      ![r].reply = IF ok THEN val ELSE RNil,
                      ![r].resp = [response EXCEPT !.cors = TRUE]]
    /\ leased' = IF ok THEN leased - 1 ELSE leased
    /\ UNCHANGED <<boot, poolCfg, ws, wsActs>>

\* handler.rs 144-163: the backend replies; 200 with the encoded value or 500
\* with the backend's message, the CORS header is attached, the connection is
\* dropped
HttpReply(r, ok, val) ==
    /\ http[r].pc = "exec"
    /\ LET response == IF ok
                       THEN FormatResponse(http[r].format, http[r].cmd_name,
                                           RedisValueToJson(val), HandlerCallback(http[r].params))
                       ELSE ErrorResponse(500, "backend")
       IN  http' = [http EXCEPT
                      ![r].pc = "done",
                      ![r].reply = IF ok THEN val ELSE RNil,
                      ![r].resp = [response EXCEPT !.cors = TRUE]]
    /\ leased' = leased - 1
    /\ UNCHANGED <<boot, poolCfg, ws, wsActs>>

\* the client disconnects while the handler awaits the pool or the backend:
\* the handler's future is dropped, and with it the connection it holds
\* (handler.rs 73: `conn` is owned by process_request)
HttpCancel(r) ==
    /\ http[r].pc \in {"lease", "exec"}
    /\ http' = [http EXCEPT ![r].pc = "gone"]
    /\ leased' = IF http[r].pc = "exec" THEN leased - 1 ELSE leased
    /\ UNCHANGED <<boot, poolCfg, ws, wsActs>>

\* handle_options (handler.rs 23-32), routed for OPTIONS on every command
\* path (main.rs 152): 200 with the CORS headers, no pool, no ACL, no backend
HttpOptions(r, command) ==
    /\ http[r].pc = "idle"
    /\ http' = [http EXCEPT ![r] = [IdleHttp EXCEPT !.pc = "done", !.method = "OPTIONS",
                                                    !.command = command,
                                                    !.resp = [NoResponse EXCEPT
                                                                !.status = 200,
                                                                !.cors = TRUE]]]
    /\ UNCHANGED <<boot, poolCfg, leased, ws, wsActs>>

-----------------------------------------------------------------------------
(* The WebSocket session, handle_socket in src/src/websocket.rs *)

MaxSockets == 1

\* frames a socket sends before it goes quiet
MaxFrames == 2

\* capacity of the per-socket outbound queue (mpsc::channel(100),
\* websocket.rs 21), scaled down
OutQueueCap == 1

WsIds == 1..MaxSockets

\* "SUBSCRIBE"
StrSUBSCRIBE == <<83, 85, 66, 83, 67, 82, 73, 66, 69>>

\* "k"
StrK == <<107>>

\* what serde_json::from_str::<Vec<String>> makes of the text frames a client
\* sends: None for a frame that is not a JSON array of strings
WsTextFrames ==
    {Some(<<StrDEBUG, StrK>>), Some(<<StrGET, StrK>>), Some(<<StrSUBSCRIBE, ChanA>>),
     Some(<<StrSUBSCRIBE>>), Some(<<>>), None}

\* a session: `frames` counts the frames received and `rcvd` lists them;
\* `skips` counts the frames that were skipped; `written` is the number of the
\* frame whose response was written to the socket last; `hungup` says that
\* the client has disconnected; `fwd` is the state of the task that writes
\* the outbound queue to the socket (websocket.rs 24-30), and with it of the
\* queue's receiving end `rx`
ClosedWs ==
    [pc |-> "closed", ip |-> IpInside, auth_header |-> None, frames |-> 0,
     rcvd |-> <<>>, skips |-> 0, cmd_name |-> <<>>, args |-> <<>>,
     outq |-> <<>>, pending |-> None, written |-> 0, hungup |-> FALSE, fwd |-> "run"]

\* "message"
StrMessage == <<109, 101, 115, 115, 97, 103, 101>>

\* a faulty reply, for contrast: every reply is keyed "message", whatever the
\* command was
WsReplyMsgUnkeyed(key, n) == [kind |-> "reply", key |-> StrMessage, value |-> <<>>, frame |-> n]

\* the text frames the server sends are JSON objects with one member; `frame`
\* is the number of the frame a response answers, 0 for a pub/sub delivery.
\* websocket.rs 109: {cmd_name: value}, the backend's value left open
WsReplyMsg(key, n) == [kind |-> "reply", key |-> key, value |-> <<>>, frame |-> n]

\* websocket.rs 93, 115: {"error": text}
WsErrorMsg(n) == [kind |-> "error", key |-> StrError, value |-> <<>>, frame |-> n]

\* websocket.rs 66: {"message": payload}
WsPubSubFrame(msg) == [kind |-> "pubsub", key |-> StrMessage, value |-> msg, frame |-> 0]

\* ws_handler (websocket.rs 15-17): the upgrade; the peer address and the
\* upgrade request's headers are not handed to handle_socket
WsOpen(s, ip, hdr) ==
    /\ ws[s].pc = "closed"
    /\ ws[s].frames = 0
    /\ ws' = [ws EXCEPT ![s].pc = "recv", ![s].ip = ip, ![s].auth_header = hdr]
    /\ UNCHANGED <<boot, poolCfg, leased, http, wsActs>>

\* a faulty session, for contrast: a frame it cannot use is answered with an
\* error frame
WsSkippedFrameAnswered(s, binary, parsed) ==
    /\ ws[s].pc = "recv"
    /\ ws[s].frames < MaxFrames
    /\ binary \/ parsed = None \/ parsed = Some(<<>>)
    /\ Len(ws[s].outq) < OutQueueCap
    /\ ws' = [ws EXCEPT ![s].frames = @ + 1, ![s].skips = @ + 1,
                        ![s].rcvd = Append(@, [binary |-> binary, parsed |-> parsed]),
                        ![s].outq = Append(@, WsErrorMsg(ws[s].frames + 1))]
    /\ UNCHANGED <<boot, poolCfg, leased, http, wsActs>>

\* websocket.rs 32-45: a binary frame, a text frame that is no array of
\* strings, and an empty array are skipped
WsSkippedFrame(s, binary, parsed) ==
    /\ ws[s].pc = "recv"
    /\ ws[s].frames < MaxFrames
    /\ binary \/ parsed = None \/ parsed = Some(<<>>)
    /\ ws' = [ws EXCEPT ![s].frames = @ + 1, ![s].skips = @ + 1,
                        ![s].rcvd = Append(@, [binary |-> binary, parsed |-> parsed])]
    /\ UNCHANGED <<boot, poolCfg, leased, http, wsActs>>

\* websocket.rs 53-86: a SUBSCRIBE frame; without a channel it is skipped,
\* otherwise a receiver is attached through PubSubManager::subscribe and a
\* forwarding task is spawned for it.  No ACL check precedes it (50-51).
WsSubscribeFrame(s, parsed, i) ==
    /\ ws[s].pc = "recv"
    /\ ws[s].frames < MaxFrames
    /\ parsed # None /\ parsed # Some(<<>>)
    /\ EqIgnoreAsciiCase(parsed[1][1], StrSUBSCRIBE)
    /\ IF Len(parsed[1]) = 1
       THEN /\ ws' = [ws EXCEPT ![s].frames = @ + 1, ![s].skips = @ + 1,
                                ![s].rcvd = Append(@, [binary |-> FALSE, parsed |-> parsed])]
            /\ UNCHANGED <<psVars, wsActs>>
       ELSE /\ SubscribeFor(i, parsed[1][2], s)
            /\ ws' = [ws EXCEPT ![s].frames = @ + 1,
                                ![s].rcvd = Append(@, [binary |-> FALSE, parsed |-> parsed]),
                                ![s].pc = IF subs'[i].st = "blocked" THEN "subscribing"
                                          ELSE "recv"]
            /\ wsActs' = wsActs \cup {[sock |-> s, kind |-> "attach", cmd_name |-> parsed[1][1]]}
    /\ UNCHANGED <<boot, poolCfg, leased, http>>

\* websocket.rs 58: PubSubManager::subscribe returns to a session that waited
\* in it for room on the control channel
WsSubscribeReturns(s, i) ==
    /\ ws[s].pc = "subscribing"
    /\ subs[i].holder = s
    /\ SubscribeSendCompletes(i)
    /\ ws' = [ws EXCEPT ![s].pc = "recv"]
    /\ UNCHANGED <<boot, poolCfg, leased, http, wsActs>>

\* websocket.rs 62-84, the task forwarding a subscription to the socket:
\* a payload is wrapped and sent to the per-socket queue, waiting when the
\* queue is full; on any error of recv (Lagged or Closed), and when the send
\* fails because the queue's receiving end is dropped, the task ends and its
\* receiver is dropped
WsSubRecv(i) ==
    /\ subs[i].st = "attached"
    /\ subs[i].holder \in WsIds
    /\ SubRecvReady(i)
    /\ LET s == subs[i].holder
           item == SubRecvItem(i)
           room == Len(ws[s].outq) < OutQueueCap
           dropped == ws[s].fwd = "ended"
       IN  IF item.kind = "msg"
           THEN /\ subs' = [subs EXCEPT
                              ![i].log = Append(@, item),
                              ![i].out = IF dropped THEN @
                                         ELSE Append(@, WsPubSubFrame(item.data)),
                              ![i].next = SubRecvCursor(i),
                              ![i].st = IF dropped THEN "ended"
                                        ELSE IF room THEN "attached" ELSE "sending"]
                /\ ws' = IF room /\ ~dropped
                         THEN [ws EXCEPT ![s].outq = Append(@, WsPubSubFrame(item.data))]
                         ELSE ws
           ELSE /\ subs' = [subs EXCEPT ![i].log = Append(@, item), ![i].st = "ended"]
                /\ UNCHANGED ws
    /\ UNCHANGED <<channels, cmdQueue, lock, bgPc, bgMsg, upstream, upLog, regAtConnect, subIssued>>
    /\ UNCHANGED <<boot, poolCfg, leased, http, wsActs>>

\* websocket.rs 73-75: the forwarding task's send completes once the queue has
\* room
WsSubSendCompletes(i) ==
    /\ subs[i].st = "sending"
    /\ Len(ws[subs[i].holder].outq) < OutQueueCap \/ ws[subs[i].holder].fwd = "ended"
    /\ ws' = IF ws[subs[i].holder].fwd = "ended" THEN ws
             ELSE [ws EXCEPT ![subs[i].holder].outq = Append(@, subs[i].out[Len(subs[i].out)])]
    /\ subs' = [subs EXCEPT ![i].st = IF ws[subs[i].holder].fwd = "ended" THEN "ended"
                                      ELSE "attached"]
    /\ UNCHANGED <<channels, cmdQueue, lock, bgPc, bgMsg, upstream, upLog, regAtConnect, subIssued>>
    /\ UNCHANGED <<boot, poolCfg, leased, http, wsActs>>

\* websocket.rs 47-88: any other command frame; the session awaits Pool::get.
\* No ACL check precedes it (50-51).
WsCommandFrame(s, parsed) ==
    /\ ws[s].pc = "recv"
    /\ ws[s].frames < MaxFrames
    /\ parsed # None /\ parsed # Some(<<>>)
    /\ ~EqIgnoreAsciiCase(parsed[1][1], StrSUBSCRIBE)
    /\ ws' = [ws EXCEPT ![s].frames = @ + 1, ![s].pc = "lease",
                        ![s].rcvd = Append(@, [binary |-> FALSE, parsed |-> parsed]),
                        ![s].cmd_name = parsed[1][1], ![s].args = Tail(parsed[1])]
    /\ UNCHANGED <<boot, poolCfg, leased, http, wsActs>>

\* tx.send(msg).await on the per-socket queue: enqueued when there is room,
\* otherwise the session waits at `after` with the message pending; once the
\* receiving end is dropped the send fails and the error is ignored (`let _`)
WsEnqueue(s, w, msg, after) ==
    IF w.fwd = "ended"
    THEN [w EXCEPT !.pc = "recv"]
    ELSE IF Len(w.outq) < OutQueueCap
    THEN [w EXCEPT !.outq = Append(@, msg), !.pc = "recv"]
    ELSE [w EXCEPT !.pending = Some(msg), !.pc = after]

\* websocket.rs 88-98, Err: "Service Unavailable" is queued for the client
WsLeaseFail(s) ==
    /\ ws[s].pc = "lease"
    /\ PoolHasRoom
    /\ ws' = [ws EXCEPT ![s] = WsEnqueue(s, ws[s], WsErrorMsg(ws[s].frames), "send_free")]
    /\ UNCHANGED <<boot, poolCfg, leased, http, wsActs>>

\* websocket.rs 88-105, Ok: the command is written to the backend
WsLeased(s) ==
    /\ ws[s].pc = "lease"
    /\ PoolHasRoom
    /\ leased' = leased + 1
    /\ ws' = [ws EXCEPT ![s].pc = "exec"]
    /\ wsActs' = wsActs \cup {[sock |-> s, kind |-> "issue", cmd_name |-> ws[s].cmd_name]}
    /\ UNCHANGED <<boot, poolCfg, http>>

\* websocket.rs 105-119: the backend replies and the response is queued for
\* the client; the connection is dropped at the end of the loop body, after the
\* send
WsReply(s, ok) ==
    /\ ws[s].pc = "exec"
    /\ LET msg == IF ok THEN WsReplyMsg(ws[s].cmd_name, ws[s].frames)
                  ELSE WsErrorMsg(ws[s].frames)
           w == WsEnqueue(s, ws[s], msg, "send_held")
       IN  /\ ws' = [ws EXCEPT ![s] = w]
           /\ leased' = IF w.pc = "recv" THEN leased - 1 ELSE leased
    /\ UNCHANGED <<boot, poolCfg, http, wsActs>>

\* a pending tx.send completes once the queue has room, or fails once the
\* receiving end is dropped
WsSendCompletes(s) ==
    /\ ws[s].pc \in {"send_held", "send_free"}
    /\ Len(ws[s].outq) < OutQueueCap \/ ws[s].fwd = "ended"
    /\ ws' = [ws EXCEPT ![s].outq = IF ws[s].fwd = "ended" THEN @
                                    ELSE Append(@, ws[s].pending[1]),
                        ![s].pending = None,
                        ![s].pc = "recv"]
    /\ leased' = IF ws[s].pc = "send_held" THEN leased - 1 ELSE leased
    /\ UNCHANGED <<boot, poolCfg, http, wsActs>>

\* websocket.rs 24-30: the forwarding task writes the next queued message to
\* the socket
WsForward(s) ==
    /\ ws[s].pc # "closed"
    /\ ws[s].fwd = "run"
    /\ ~ws[s].hungup
    /\ ws[s].outq # <<>>
    /\ ws' = [ws EXCEPT ![s].outq = Tail(@),
                        ![s].written = IF Head(ws[s].outq).frame > 0
                                       THEN Head(ws[s].outq).frame ELSE @]
    /\ UNCHANGED <<boot, poolCfg, leased, http, wsActs>>

\* the client disconnects
WsHangup(s) ==
    /\ ws[s].pc \notin {"closed", "gone"}
    /\ ~ws[s].hungup
    /\ ws' = [ws EXCEPT ![s].hungup = TRUE]
    /\ UNCHANGED <<boot, poolCfg, leased, http, wsActs>>

\* websocket.rs 32-38: receiver.next() yields None or an error and
\* handle_socket returns; its sender `tx` is dropped, the tasks it spawned
\* are not told
WsSessionEnds(s) ==
    /\ ws[s].pc = "recv"
    /\ ws[s].hungup
    /\ ws' = [ws EXCEPT ![s].pc = "gone"]
    /\ UNCHANGED <<boot, poolCfg, leased, http, wsActs>>

\* websocket.rs 26-28: writing a queued message to the socket of a client
\* that is gone fails; the task ends and the queue's receiving end is dropped
\* with what it holds
WsForwardFails(s) ==
    /\ ws[s].pc # "closed"
    /\ ws[s].fwd = "run"
    /\ ws[s].hungup
    /\ ws[s].outq # <<>>
    /\ ws' = [ws EXCEPT ![s].fwd = "ended", ![s].outq = <<>>]
    /\ UNCHANGED <<boot, poolCfg, leased, http, wsActs>>

\* the tasks forwarding a subscription of socket s (websocket.rs 62-84); each
\* owns a clone of the sender `tx` (59)
WsSubTasks(s) == {i \in SubIds : subs[i].holder = s /\ subs[i].st \in {"attached", "sending"}}

\* websocket.rs 25: rx.recv() yields None once the queue is empty and every
\* sender is dropped: the session's and each forwarding task's clone
WsForwardEnds(s) ==
    /\ ws[s].pc = "gone"
    /\ ws[s].fwd = "run"
    /\ ws[s].outq = <<>>
    /\ WsSubTasks(s) = {}
    /\ ws' = [ws EXCEPT ![s].fwd = "ended"]
    /\ UNCHANGED <<boot, poolCfg, leased, http, wsActs>>

-----------------------------------------------------------------------------
(* The router, main.rs 146-154.  A path is given without its leading slash. *)

StartsWith(s, prefix) == Len(s) >= Len(prefix) /\ SubSeq(s, 1, Len(prefix)) = prefix

\* "SUBSCRIBE/", the static part of the route "/SUBSCRIBE/*channel"
SubscribeRoutePrefix == StrSUBSCRIBE \o <<ByteSlash>>

\* the route a path matches: "/SUBSCRIBE/*channel" when it begins with
\* SUBSCRIBE/ in exactly this spelling and a non-empty channel follows,
\* otherwise "/*command"
RouteOf(path) ==
    IF StartsWith(path, SubscribeRoutePrefix) /\ Len(path) > Len(SubscribeRoutePrefix)
    THEN "subscribe"
    ELSE "command"

\* Path(channel) of handle_subscribe: what the wildcard captured
RouteChannel(path) == SubSeq(path, Len(SubscribeRoutePrefix) + 1, Len(path))

\* pubsub::handle_subscribe (pubsub.rs 114-131) up to the call of subscribe:
\* no ACL check, no pool; the request waits while subscribe waits for room on
\* the control channel
HttpSubscribe(r, ip, hdr, path, i) ==
    /\ http[r].pc = "idle"
    /\ SubscribeFor(i, RouteChannel(path), 0)
    /\ http' = [http EXCEPT ![r] = [IdleHttp EXCEPT
                                      !.pc = IF subs'[i].st = "blocked" THEN "subscribing"
                                             ELSE "sse",
                                      !.ip = ip, !.auth_header = hdr,
                                      !.command = path]]
    /\ UNCHANGED <<boot, poolCfg, leased, ws, wsActs>>

\* pubsub.rs 118: subscribe returns to a request that waited in it, the
\* response becomes the stream of the receiver
HttpSubscribeReturns(r, i) ==
    /\ http[r].pc = "subscribing"
    /\ subs[i].holder = 0
    /\ SubscribeSendCompletes(i)
    /\ http' = [http EXCEPT ![r].pc = "sse"]
    /\ UNCHANGED <<boot, poolCfg, leased, ws, wsActs>>

\* main.rs 154: the route "/SUBSCRIBE/*channel" has a handler for GET only;
\* any other method on a path of that route is answered 405
HttpMethodNotAllowed(r, method, ip, hdr, path) ==
    /\ http[r].pc = "idle"
    /\ http' = [http EXCEPT ![r] = [IdleHttp EXCEPT
                                      !.pc = "done", !.method = method,
                                      !.ip = ip, !.auth_header = hdr,
                                      !.command = path,
                                      !.resp = [NoResponse EXCEPT !.status = 405]]]
    /\ UNCHANGED <<boot, poolCfg, leased, ws, wsActs>>

\* a GET, POST or PUT request through the router
HttpRequest(r, method, ip, hdr, path, body, i) ==
    IF RouteOf(path) = "subscribe"
    THEN IF method = "GET"
         THEN HttpSubscribe(r, ip, hdr, path, i)
         ELSE HttpMethodNotAllowed(r, method, ip, hdr, path) /\ UNCHANGED psVars
    ELSE HttpArrive(r, method, ip, hdr, path, body, NoParams) /\ UNCHANGED psVars

-----------------------------------------------------------------------------
\* the configurations the handlers are run under
CfgPoolSizePerThread == 1

CfgHttpThreads == 1

PoolCfgs ==
    {[pool_size_per_thread |-> Some(CfgPoolSizePerThread), http_threads |-> Some(CfgHttpThreads),
      http_max_request_size |-> None],
     [pool_size_per_thread |-> None, http_threads |-> None, http_max_request_size |-> None]}

DispatchInit ==
    /\ boot = Booted
    /\ poolCfg \in PoolCfgs
    /\ leased = 0
    /\ http = [r \in HttpIds |-> IdleHttp]
    /\ ws = [s \in WsIds |-> ClosedWs]
    /\ wsActs = {}

\* no request handler runs
DispatchUnused ==
    /\ boot = Booted
    /\ poolCfg = [pool_size_per_thread |-> None, http_threads |-> None,
                  http_max_request_size |-> None]
    /\ leased = 0
    /\ http = [r \in HttpIds |-> IdleHttp]
    /\ ws = [s \in WsIds |-> ClosedWs]
    /\ wsActs = {}

-----------------------------------------------------------------------------
(* The ACL evaluator on its own: a configured rule list, then calls of      *)
(* Acl::check with every combination of peer, header and command.           *)

MaxRules == 2

AclSubnets == {None, Some(Net10)}

AclCreds == {None, Some(CredUP)}

AclLists == {<<>>, <<StrStar>>, <<StrDebugLower>>}

AclRuleUniverse ==
    [ip_subnet : AclSubnets, basic_auth : AclCreds, enabled : AclLists, disabled : AclLists]

AclRuleSeqs == UNION {[1..n -> AclRuleUniverse] : n \in 0..MaxRules}

AclIps == {IpInside, IpOutside}

AclHeaders ==
    {None, Some(HdrGood), Some(HdrWrongCase), Some(HdrLowerScheme),
     Some(HdrBadBase64), Some(HdrNotUtf8)}

AclCommands == {StrDEBUG, StrGET}

NoAclReq == [ip |-> IpInside, command |-> <<>>, auth_header |-> None]

AclInit ==
    /\ aclRules \in AclRuleSeqs
    /\ aclPc = "idle"
    /\ aclReq = NoAclReq
    /\ aclMatched = <<>>
    /\ aclResult = TRUE

\* a caller evaluates Acl::check
AclCall(ip, command, auth_header) ==
    /\ aclPc = "idle"
    /\ aclReq' = [ip |-> ip, command |-> command, auth_header |-> auth_header]
    /\ aclMatched' = [i \in 1..Len(aclRules) |-> RuleMatches(aclRules[i], ip, auth_header)]
    /\ aclResult' = AclCheck(aclRules, ip, command, auth_header)
    /\ aclPc' = "ret"
    /\ UNCHANGED <<aclRules, psVars, dpVars>>

\* the caller is done with the result
AclReturn ==
    /\ aclPc = "ret"
    /\ aclPc' = "idle"
    /\ aclReq' = NoAclReq
    /\ aclMatched' = <<>>
    /\ aclResult' = TRUE
    /\ UNCHANGED <<aclRules, psVars, dpVars>>

AclNext ==
    \/ \E ip \in AclIps, c \in AclCommands, h \in AclHeaders : AclCall(ip, c, h)
    \/ AclReturn

InitAcl == AclInit /\ PubSubInit /\ DispatchUnused

SpecAcl == InitAcl /\ [][AclNext]_vars

-----------------------------------------------------------------------------
(* The multiplexer on its own: subscribers come and go, the background task *)
(* runs, the upstream delivers messages and breaks.                         *)

\* no direct caller of the ACL evaluator
AclUnused ==
    /\ aclRules = <<>>
    /\ aclPc = "idle"
    /\ aclReq = NoAclReq
    /\ aclMatched = <<>>
    /\ aclResult = TRUE

PubSubNext ==
    \/ \E i \in SubIds, ch \in Channels : Subscribe(i, ch) /\ UNCHANGED <<aclVars, dpVars>>
    \/ \E i \in SubIds : SubscribeSendCompletes(i) /\ UNCHANGED <<aclVars, dpVars>>
    \/ \E i \in SubIds : SubscriberRecv(i) /\ UNCHANGED <<aclVars, dpVars>>
    \/ \E i \in SubIds : SubscriberDrop(i) /\ UNCHANGED <<aclVars, dpVars>>
    \/ BgConnectOk /\ UNCHANGED <<aclVars, dpVars>>
    \/ BgConnectFail /\ UNCHANGED <<aclVars, dpVars>>
    \/ BgSleepEnds /\ UNCHANGED <<aclVars, dpVars>>
    \/ \E ok \in BOOLEAN : BgCommand(ok) /\ UNCHANGED <<aclVars, dpVars>>
    \/ BgCommandsDone /\ UNCHANGED <<aclVars, dpVars>>
    \/ \E ch \in Channels, p \in Payloads(MsgCount + 1) : BgMessage(ch, p) /\ UNCHANGED <<aclVars, dpVars>>
    \/ BgReadLocked /\ UNCHANGED <<aclVars, dpVars>>
    \/ BgTimeout /\ UNCHANGED <<aclVars, dpVars>>
    \/ BgStreamEnded /\ UNCHANGED <<aclVars, dpVars>>

InitPubSub == PubSubInit /\ AclUnused /\ DispatchUnused

SpecPubSub == InitPubSub /\ [][PubSubNext]_vars

-----------------------------------------------------------------------------
(* The request handlers: HTTP requests and WebSocket sessions share the     *)
(* pool, the ACL and the registry.                                          *)

Init ==
    /\ aclRules \in {TestAcl, SubnetAcl}
    /\ aclPc = "idle"
    /\ aclReq = NoAclReq
    /\ aclMatched = <<>>
    /\ aclResult = TRUE
    /\ PubSubInit
    /\ DispatchInit

Next ==
    \/ \E r \in HttpIds, ip \in AclIps, h \in HttpHeaders, c \in HttpPaths :
          HttpArrive(r, "GET", ip, h, c, <<>>, NoParams) /\ UNCHANGED <<aclVars, psVars>>
    \/ \E r \in HttpIds : HttpLeaseFail(r) /\ UNCHANGED <<aclVars, psVars>>
    \/ \E r \in HttpIds : HttpLeased(r) /\ UNCHANGED <<aclVars, psVars>>
    \/ \E r \in HttpIds, ok \in BOOLEAN : HttpReply(r, ok, ROkay) /\ UNCHANGED <<aclVars, psVars>>
    \/ \E s \in WsIds, ip \in AclIps, h \in HttpHeaders :
          WsOpen(s, ip, h) /\ UNCHANGED <<aclVars, psVars>>
    \/ \E s \in WsIds, b \in BOOLEAN, f \in WsTextFrames :
          WsSkippedFrame(s, b, f) /\ UNCHANGED <<aclVars, psVars>>
    \/ \E s \in WsIds, f \in WsTextFrames, i \in SubIds :
          WsSubscribeFrame(s, f, i) /\ UNCHANGED aclVars
    \/ \E s \in WsIds, f \in WsTextFrames : WsCommandFrame(s, f) /\ UNCHANGED <<aclVars, psVars>>
    \/ \E s \in WsIds : WsLeaseFail(s) /\ UNCHANGED <<aclVars, psVars>>
    \/ \E s \in WsIds : WsLeased(s) /\ UNCHANGED <<aclVars, psVars>>
    \/ \E s \in WsIds, ok \in BOOLEAN : WsReply(s, ok) /\ UNCHANGED <<aclVars, psVars>>
    \/ \E s \in WsIds : WsSendCompletes(s) /\ UNCHANGED <<aclVars, psVars>>
    \/ \E s \in WsIds : WsForward(s) /\ UNCHANGED <<aclVars, psVars>>

Spec == Init /\ [][Next]_vars

-----------------------------------------------------------------------------
(* The handlers and the pool on their own: command requests over HTTP and  *)
(* command frames over WebSocket from one peer, under the ACL of the       *)
(* integration tests (DEBUG is denied, GET is allowed).                    *)

PoolFrames == {Some(<<StrGET, StrK>>)}

InitPool ==
    /\ aclRules = TestAcl
    /\ aclPc = "idle"
    /\ aclReq = NoAclReq
    /\ aclMatched = <<>>
    /\ aclResult = TRUE
    /\ PubSubInit
    /\ DispatchInit

PoolNext ==
    \/ \E r \in HttpIds, c \in HttpPaths :
          HttpArrive(r, "GET", IpInside, None, c, <<>>, NoParams) /\ UNCHANGED <<aclVars, psVars>>
    \/ \E r \in HttpIds : HttpLeaseFail(r) /\ UNCHANGED <<aclVars, psVars>>
    \/ \E r \in HttpIds : HttpLeased(r) /\ UNCHANGED <<aclVars, psVars>>
    \/ \E r \in HttpIds, ok \in BOOLEAN : HttpReply(r, ok, ROkay) /\ UNCHANGED <<aclVars, psVars>>
    \/ \E s \in WsIds : WsOpen(s, IpInside, None) /\ UNCHANGED <<aclVars, psVars>>
    \/ \E s \in WsIds, f \in PoolFrames : WsCommandFrame(s, f) /\ UNCHANGED <<aclVars, psVars>>
    \/ \E s \in WsIds : WsLeaseFail(s) /\ UNCHANGED <<aclVars, psVars>>
    \/ \E s \in WsIds : WsLeased(s) /\ UNCHANGED <<aclVars, psVars>>
    \/ \E s \in WsIds, ok \in BOOLEAN : WsReply(s, ok) /\ UNCHANGED <<aclVars, psVars>>
    \/ \E s \in WsIds : WsSendCompletes(s) /\ UNCHANGED <<aclVars, psVars>>
    \/ \E s \in WsIds : WsForward(s) /\ UNCHANGED <<aclVars, psVars>>

SpecPool == InitPool /\ [][PoolNext]_vars

-----------------------------------------------------------------------------
(* The HTTP command handler on its own: GET, POST and PUT requests from one *)
(* peer, without credentials, under the ACL of the integration tests (DEBUG *)
(* is denied, every other command is allowed).                              *)

\* "/k": the first segment is empty
PathEmptyFirst == <<47, 107>>

\* ".raw": the first segment is only a format extension
PathOnlyExt == <<46, 114, 97, 119>>

\* "SET/k"
PathSet == <<83, 69, 84, 47, 107>>

HttpOnlyPaths == {PathDebug, PathSet, PathEmptyFirst, PathOnlyExt}

HttpMethods == {"GET", "POST", "PUT"}

\* request bodies: empty, the text "v", the byte 0xFF
BodyText == <<118>>

BodyBinary == <<255>>

\* the request size the handlers are configured with, and a body one byte
\* longer
CfgMaxRequestSize == 1

BodyLong == [k \in 1..(CfgMaxRequestSize + 1) |-> 118]

HttpBodies == {<<>>, BodyText, BodyBinary, BodyLong}

HttpCfgs ==
    {[pool_size_per_thread |-> None, http_threads |-> None, http_max_request_size |-> m] :
        m \in {None, Some(CfgMaxRequestSize)}}

InitHttp ==
    /\ aclRules = TestAcl
    /\ aclPc = "idle"
    /\ aclReq = NoAclReq
    /\ aclMatched = <<>>
    /\ aclResult = TRUE
    /\ PubSubInit
    /\ boot = Booted
    /\ poolCfg \in HttpCfgs
    /\ leased = 0
    /\ http = [r \in HttpIds |-> IdleHttp]
    /\ ws = [s \in WsIds |-> ClosedWs]
    /\ wsActs = {}

HttpNext ==
    \/ \E r \in HttpIds, m \in HttpMethods, c \in HttpOnlyPaths, b \in HttpBodies :
          HttpArrive(r, m, IpInside, None, c, b, NoParams) /\ UNCHANGED <<aclVars, psVars>>
    \/ \E r \in HttpIds : HttpLeaseFail(r) /\ UNCHANGED <<aclVars, psVars>>
    \/ \E r \in HttpIds : HttpLeased(r) /\ UNCHANGED <<aclVars, psVars>>
    \/ \E r \in HttpIds, ok \in BOOLEAN : HttpReply(r, ok, ROkay) /\ UNCHANGED <<aclVars, psVars>>
    \/ \E r \in HttpIds, c \in HttpOnlyPaths : HttpOptions(r, c) /\ UNCHANGED <<aclVars, psVars>>

SpecHttp == InitHttp /\ [][HttpNext]_vars

-----------------------------------------------------------------------------
(* Request parsing on its own: GET requests of one peer whose paths carry   *)
(* format extensions, with and without the query parameter `type`.          *)

\* "GET.raw/k"
PathGetRawCmd == <<71, 69, 84, 46, 114, 97, 119, 47, 107>>

\* "GET.x.msg/k"
PathGetTwoDots == <<71, 69, 84, 46, 120, 46, 109, 115, 103, 47, 107>>

\* "DEBUG.raw/k"
PathDebugRaw == <<68, 69, 66, 85, 71, 46, 114, 97, 119, 47, 107>>

\* "GET/k.raw"
PathArgRaw == <<71, 69, 84, 47, 107, 46, 114, 97, 119>>

\* "GET/a.raw/k.json"
PathArgJson == <<71, 69, 84, 47, 97, 46, 114, 97, 119, 47, 107, 46, 106, 115, 111, 110>>

\* "GET/k.txt"
PathArgTxt == <<71, 69, 84, 47, 107, 46, 116, 120, 116>>

\* "GET/k.msgpack"
PathArgMsgpack == <<71, 69, 84, 47, 107, 46, 109, 115, 103, 112, 97, 99, 107>>

\* "GET.raw/k.msg"
PathBothExt == <<71, 69, 84, 46, 114, 97, 119, 47, 107, 46, 109, 115, 103>>

\* "GET"
PathNoArgs == <<71, 69, 84>>

ParsePaths ==
    {PathGet, PathGetRawCmd, PathGetTwoDots, PathDebugRaw, PathArgRaw, PathArgJson,
     PathArgTxt, PathArgMsgpack, PathBothExt, PathNoArgs}

\* "x"
StrX == <<120>>

\* ?type absent, raw, json, msg, and a name that is no format
TypeParams == {None, Some(StrRaw), Some(StrJson), Some(StrMsg), Some(StrX)}

\* the request task of that peer
FirstHttp == CHOOSE r \in HttpIds : \A q \in HttpIds : r <= q

\* "v"
ReplyText == RData(<<118>>)

ParseNext ==
    \/ \E r \in {FirstHttp}, c \in ParsePaths, t \in TypeParams :
          HttpArrive(r, "GET", IpInside, None, c, <<>>, [NoParams EXCEPT !.type = t])
              /\ UNCHANGED <<aclVars, psVars>>
    \/ \E r \in {FirstHttp} : HttpLeaseFail(r) /\ UNCHANGED <<aclVars, psVars>>
    \/ \E r \in {FirstHttp} : HttpLeased(r) /\ UNCHANGED <<aclVars, psVars>>
    \/ \E r \in {FirstHttp}, ok \in BOOLEAN :
          HttpReply(r, ok, ReplyText) /\ UNCHANGED <<aclVars, psVars>>

SpecParse == InitPool /\ [][ParseNext]_vars

-----------------------------------------------------------------------------
(* Response encoding on its own: GET requests of one peer with the JSONP    *)
(* query parameters, answered by the backend with replies of every shape.   *)

FormatPaths == {PathGet, PathGetRawCmd, PathGetTwoDots}

\* "f"
StrCallback == <<102>>

\* "f(" : no identifier
StrBadCallback == <<102, 40>>

\* no parameter, ?cb=f, ?callback=f, ?cb=f(
CallbackParams ==
    {NoParams,
     [NoParams EXCEPT !.cb = Some(StrCallback)],
     [NoParams EXCEPT !.callback = Some(StrCallback)],
     [NoParams EXCEPT !.cb = Some(StrBadCallback)]}

\* nil, 7, "v", OK, ["a", 7], ["a", ["b", "c"]]
ReplyValues ==
    {RNil, RInt(7), ReplyText, ROkay,
     RBulk(<<RData(<<97>>), RInt(7)>>),
     RBulk(<<RData(<<97>>), RBulk(<<RData(<<98>>), RData(<<99>>)>>)>>)}

FormatNext ==
    \/ \E r \in {FirstHttp}, c \in FormatPaths, q \in CallbackParams :
          HttpArrive(r, "GET", IpInside, None, c, <<>>, q)
              /\ UNCHANGED <<aclVars, psVars>>
    \/ \E r \in {FirstHttp} : HttpLeaseFail(r) /\ UNCHANGED <<aclVars, psVars>>
    \/ \E r \in {FirstHttp} : HttpLeased(r) /\ UNCHANGED <<aclVars, psVars>>
    \/ \E r \in {FirstHttp}, ok \in BOOLEAN, val \in ReplyValues :
          HttpReply(r, ok, val) /\ UNCHANGED <<aclVars, psVars>>

SpecFormat == InitPool /\ [][FormatNext]_vars

-----------------------------------------------------------------------------
(* The multiplexer with a channel already served: an earlier client         *)
(* subscribed to "a" and went away, so "a" is in the registry and on the    *)
(* upstream connection (nothing removes it), and the task is listening.     *)
(* New clients then subscribe to channels that are not in the registry.     *)

\* "c"
ChanC == <<99>>

NewChannels == {ChanB, ChanC}

InitLock ==
    /\ AclUnused
    /\ DispatchUnused
    /\ channels = (ChanA :> NewSender)
    /\ cmdQueue = <<>>
    /\ subs = [i \in SubIds |-> FreeSub]
    /\ lock = 0
    /\ bgPc = "listen"
    /\ bgMsg = None
    /\ upstream = {ChanA}
    /\ upLog = [c \in Channels \cup NewChannels |-> <<>>]
    /\ regAtConnect = {}
    /\ subIssued = {ChanA}

LockNext ==
    \/ \E i \in SubIds, ch \in NewChannels : Subscribe(i, ch) /\ UNCHANGED <<aclVars, dpVars>>
    \/ \E i \in SubIds : SubscribeSendCompletes(i) /\ UNCHANGED <<aclVars, dpVars>>
    \/ \E i \in SubIds : SubscriberRecv(i) /\ UNCHANGED <<aclVars, dpVars>>
    \/ \E ok \in BOOLEAN : BgCommand(ok) /\ UNCHANGED <<aclVars, dpVars>>
    \/ BgCommandsDone /\ UNCHANGED <<aclVars, dpVars>>
    \/ \E ch \in Channels, p \in Payloads(MsgCount + 1) : BgMessage(ch, p) /\ UNCHANGED <<aclVars, dpVars>>
    \/ BgReadLocked /\ UNCHANGED <<aclVars, dpVars>>
    \/ BgTimeout /\ UNCHANGED <<aclVars, dpVars>>

SpecLock == InitLock /\ [][LockNext]_vars

-----------------------------------------------------------------------------
(* Startup on its own: a configuration file is read and the two kinds of    *)
(* backend connection are set up from it.                                   *)

MaxDatabase == 1

\* "secret", "user"
StrPassword == <<115, 101, 99, 114, 101, 116>>

StrUser == <<117, 115, 101, 114>>

\* redis_auth: absent, a legacy password, a [user, password] pair, a list
\* of one
ConfigAuths ==
    {None,
     Some([kind |-> "Legacy", creds |-> <<StrPassword>>]),
     Some([kind |-> "ACL", creds |-> <<StrUser, StrPassword>>]),
     Some([kind |-> "ACL", creds |-> <<StrUser>>])}

\* the files: each canonical key and each legacy key absent or present (the
\* legacy value differs from the canonical one)
ConfigFiles ==
    [http_threads : {None, Some(CfgHttpThreads)},
     legacy_http_threads : {None, Some(CfgHttpThreads + 1)},
     pool_size_per_thread : {None, Some(CfgPoolSizePerThread)},
     legacy_pool_size_per_thread : {None, Some(CfgPoolSizePerThread + 1)},
     ssl : {None, Some([enabled |-> TRUE]), Some([enabled |-> FALSE])},
     redis_auth : ConfigAuths,
     database : 0..MaxDatabase,
     acl : {None}]

InitConfig ==
    /\ AclUnused
    /\ PubSubInit
    /\ poolCfg = [pool_size_per_thread |-> None, http_threads |-> None,
                  http_max_request_size |-> None]
    /\ leased = 0
    /\ http = [r \in HttpIds |-> IdleHttp]
    /\ ws = [s \in WsIds |-> ClosedWs]
    /\ wsActs = {}
    /\ \E f \in ConfigFiles :
          boot = [Booted EXCEPT !.pc = "start", !.file = Some(f)]

ConfigNext ==
    \/ BootLoad
    \/ BootCreatePool
    \/ BootPubSubClient
    \/ BootAppState

SpecConfig == InitConfig /\ [][ConfigNext]_vars

-----------------------------------------------------------------------------
(* WebSocket sessions on their own: command frames, and frames that are    *)
(* skipped, from one peer.                                                  *)

\* "SET"
StrSET == <<83, 69, 84>>

\* ["SET","k"], ["GET","k"], [] and a text that is no array of strings
WsOnlyFrames == {Some(<<StrSET, StrK>>), Some(<<StrGET, StrK>>), Some(<<>>), None}

\* the socket of that peer
FirstSocket == CHOOSE s \in WsIds : \A t \in WsIds : s <= t

WsNext ==
    \/ \E s \in {FirstSocket} : WsOpen(s, IpInside, None) /\ UNCHANGED <<aclVars, psVars>>
    \/ \E s \in {FirstSocket}, b \in BOOLEAN, f \in WsOnlyFrames :
          WsSkippedFrame(s, b, f) /\ UNCHANGED <<aclVars, psVars>>
    \/ \E s \in {FirstSocket}, f \in WsOnlyFrames : WsCommandFrame(s, f) /\ UNCHANGED <<aclVars, psVars>>
    \/ \E s \in {FirstSocket} : WsLeaseFail(s) /\ UNCHANGED <<aclVars, psVars>>
    \/ \E s \in {FirstSocket} : WsLeased(s) /\ UNCHANGED <<aclVars, psVars>>
    \/ \E s \in {FirstSocket}, ok \in BOOLEAN : WsReply(s, ok) /\ UNCHANGED <<aclVars, psVars>>
    \/ \E s \in {FirstSocket} : WsSendCompletes(s) /\ UNCHANGED <<aclVars, psVars>>
    \/ \E s \in {FirstSocket} : WsForward(s) /\ UNCHANGED <<aclVars, psVars>>

SpecWs == InitPool /\ [][WsNext]_vars

-----------------------------------------------------------------------------
(* WebSocket subscriptions: sessions that send SUBSCRIBE frames, their      *)
(* forwarding tasks and the background task of the multiplexer.             *)

\* ["SUBSCRIBE","a"] and ["SUBSCRIBE","b"]
WsSubFrames == {Some(<<StrSUBSCRIBE, ChanA>>), Some(<<StrSUBSCRIBE, ChanB>>)}

WsPubSubNext ==
    \/ \E s \in WsIds : WsOpen(s, IpInside, None) /\ UNCHANGED <<aclVars, psVars>>
    \/ \E s \in WsIds, f \in WsSubFrames, i \in SubIds :
          WsSubscribeFrame(s, f, i) /\ UNCHANGED aclVars
    \/ \E s \in WsIds, i \in SubIds : WsSubscribeReturns(s, i) /\ UNCHANGED aclVars
    \/ \E i \in SubIds : WsSubRecv(i) /\ UNCHANGED aclVars
    \/ \E i \in SubIds : WsSubSendCompletes(i) /\ UNCHANGED aclVars
    \/ \E s \in WsIds : WsForward(s) /\ UNCHANGED <<aclVars, psVars>>
    \/ BgConnectOk /\ UNCHANGED <<aclVars, dpVars>>
    \/ BgConnectFail /\ UNCHANGED <<aclVars, dpVars>>
    \/ BgSleepEnds /\ UNCHANGED <<aclVars, dpVars>>
    \/ \E ok \in BOOLEAN : BgCommand(ok) /\ UNCHANGED <<aclVars, dpVars>>
    \/ BgCommandsDone /\ UNCHANGED <<aclVars, dpVars>>
    \/ \E ch \in Channels, p \in Payloads(MsgCount + 1) : BgMessage(ch, p) /\ UNCHANGED <<aclVars, dpVars>>
    \/ BgReadLocked /\ UNCHANGED <<aclVars, dpVars>>
    \/ BgTimeout /\ UNCHANGED <<aclVars, dpVars>>
    \/ BgStreamEnded /\ UNCHANGED <<aclVars, dpVars>>

SpecWsPubSub == InitPool /\ [][WsPubSubNext]_vars

-----------------------------------------------------------------------------
(* Leases on their own: one HTTP request at a time and one WebSocket        *)
(* session, whose clients may disconnect at any point, under the ACL of the *)
(* integration tests.                                                       *)

LeasePaths == HttpPaths \cup HttpOnlyPaths

LeaseNext ==
    \/ \E c \in LeasePaths :
          HttpArrive(FirstHttp, "GET", IpInside, None, c, <<>>, NoParams)
              /\ UNCHANGED <<aclVars, psVars>>
    \/ HttpLeaseFail(FirstHttp) /\ UNCHANGED <<aclVars, psVars>>
    \/ HttpLeased(FirstHttp) /\ UNCHANGED <<aclVars, psVars>>
    \/ \E ok \in BOOLEAN : HttpReply(FirstHttp, ok, ROkay) /\ UNCHANGED <<aclVars, psVars>>
    \/ HttpCancel(FirstHttp) /\ UNCHANGED <<aclVars, psVars>>
    \/ WsOpen(FirstSocket, IpInside, None) /\ UNCHANGED <<aclVars, psVars>>
    \/ \E f \in PoolFrames : WsCommandFrame(FirstSocket, f) /\ UNCHANGED <<aclVars, psVars>>
    \/ WsLeaseFail(FirstSocket) /\ UNCHANGED <<aclVars, psVars>>
    \/ WsLeased(FirstSocket) /\ UNCHANGED <<aclVars, psVars>>
    \/ \E ok \in BOOLEAN : WsReply(FirstSocket, ok) /\ UNCHANGED <<aclVars, psVars>>
    \/ WsSendCompletes(FirstSocket) /\ UNCHANGED <<aclVars, psVars>>
    \/ WsForward(FirstSocket) /\ UNCHANGED <<aclVars, psVars>>
    \/ WsHangup(FirstSocket) /\ UNCHANGED <<aclVars, psVars>>
    \/ WsSessionEnds(FirstSocket) /\ UNCHANGED <<aclVars, psVars>>
    \/ WsForwardFails(FirstSocket) /\ UNCHANGED <<aclVars, psVars>>
    \/ WsForwardEnds(FirstSocket) /\ UNCHANGED <<aclVars, psVars>>

SpecLease == InitPool /\ [][LeaseNext]_vars

-----------------------------------------------------------------------------
(* The end of a WebSocket session: one socket that subscribes and whose     *)
(* client disconnects, its tasks and the background task of the             *)
(* multiplexer.                                                             *)

\* a step of a task spawned for socket s: the task writing the outbound
\* queue to the socket (websocket.rs 24-30) or a task forwarding a
\* subscription (62-84)
WsTaskStep(s) ==
    \/ WsForward(s) /\ UNCHANGED <<aclVars, psVars>>
    \/ WsForwardFails(s) /\ UNCHANGED <<aclVars, psVars>>
    \/ WsForwardEnds(s) /\ UNCHANGED <<aclVars, psVars>>
    \/ \E i \in SubIds : subs[i].holder = s /\ WsSubRecv(i) /\ UNCHANGED aclVars
    \/ \E i \in SubIds : subs[i].holder = s /\ WsSubSendCompletes(i) /\ UNCHANGED aclVars

WsGoneNext ==
    \/ WsOpen(FirstSocket, IpInside, None) /\ UNCHANGED <<aclVars, psVars>>
    \/ \E f \in WsSubFrames, i \in SubIds :
          WsSubscribeFrame(FirstSocket, f, i) /\ UNCHANGED aclVars
    \/ \E i \in SubIds : WsSubscribeReturns(FirstSocket, i) /\ UNCHANGED aclVars
    \/ WsHangup(FirstSocket) /\ UNCHANGED <<aclVars, psVars>>
    \/ WsSessionEnds(FirstSocket) /\ UNCHANGED <<aclVars, psVars>>
    \/ WsTaskStep(FirstSocket)
    \/ BgConnectOk /\ UNCHANGED <<aclVars, dpVars>>
    \/ BgConnectFail /\ UNCHANGED <<aclVars, dpVars>>
    \/ BgSleepEnds /\ UNCHANGED <<aclVars, dpVars>>
    \/ \E ok \in BOOLEAN : BgCommand(ok) /\ UNCHANGED <<aclVars, dpVars>>
    \/ BgCommandsDone /\ UNCHANGED <<aclVars, dpVars>>
    \/ \E ch \in Channels, p \in Payloads(MsgCount + 1) : BgMessage(ch, p) /\ UNCHANGED <<aclVars, dpVars>>
    \/ BgReadLocked /\ UNCHANGED <<aclVars, dpVars>>
    \/ BgTimeout /\ UNCHANGED <<aclVars, dpVars>>
    \/ BgStreamEnded /\ UNCHANGED <<aclVars, dpVars>>

SpecWsGone == InitPool /\ [][WsGoneNext]_vars

-----------------------------------------------------------------------------
(* Subscriptions through the router: one peer inside 10.0.0.0/8 that sends  *)
(* HTTP requests and WebSocket frames naming SUBSCRIBE in several           *)
(* spellings, under the ACL of the integration tests or under one that      *)
(* disables every command for the peer's subnet.                            *)

\* "SUBSCRIBE/a"
PathSubscribe == <<83, 85, 66, 83, 67, 82, 73, 66, 69, 47, 97>>

\* "subscribe/a"
PathSubscribeLower == <<115, 117, 98, 115, 99, 114, 105, 98, 101, 47, 97>>

\* "SUBSCRIBE.raw/a"
PathSubscribeRaw == <<83, 85, 66, 83, 67, 82, 73, 66, 69, 46, 114, 97, 119, 47, 97>>

RoutePaths == {PathSubscribe, PathSubscribeLower, PathSubscribeRaw, StrSUBSCRIBE, PathGet}

RouteAcls == {TestAcl, SubnetAcl}

InitRoute ==
    /\ aclRules \in RouteAcls
    /\ aclPc = "idle"
    /\ aclReq = NoAclReq
    /\ aclMatched = <<>>
    /\ aclResult = TRUE
    /\ PubSubInit
    /\ DispatchInit

RouteNext ==
    \/ \E m \in {"GET", "POST"}, c \in RoutePaths, i \in SubIds :
          HttpRequest(FirstHttp, m, IpInside, None, c, <<>>, i) /\ UNCHANGED aclVars
    \/ \E i \in SubIds : HttpSubscribeReturns(FirstHttp, i) /\ UNCHANGED aclVars
    \/ HttpLeaseFail(FirstHttp) /\ UNCHANGED <<aclVars, psVars>>
    \/ HttpLeased(FirstHttp) /\ UNCHANGED <<aclVars, psVars>>
    \/ \E ok \in BOOLEAN : HttpReply(FirstHttp, ok, ROkay) /\ UNCHANGED <<aclVars, psVars>>
    \/ WsOpen(FirstSocket, IpInside, None) /\ UNCHANGED <<aclVars, psVars>>
    \/ \E f \in WsSubFrames, i \in SubIds :
          WsSubscribeFrame(FirstSocket, f, i) /\ UNCHANGED aclVars
    \/ \E i \in SubIds : WsSubscribeReturns(FirstSocket, i) /\ UNCHANGED aclVars
    \/ \E i \in SubIds : SubscriberRecv(i) /\ UNCHANGED <<aclVars, dpVars>>
    \/ \E i \in SubIds : WsSubRecv(i) /\ UNCHANGED aclVars
    \/ WsForward(FirstSocket) /\ UNCHANGED <<aclVars, psVars>>
    \/ BgConnectOk /\ UNCHANGED <<aclVars, dpVars>>
    \/ \E ok \in BOOLEAN : BgCommand(ok) /\ UNCHANGED <<aclVars, dpVars>>
    \/ BgCommandsDone /\ UNCHANGED <<aclVars, dpVars>>
    \/ \E ch \in Channels, p \in Payloads(MsgCount + 1) : BgMessage(ch, p) /\ UNCHANGED <<aclVars, dpVars>>
    \/ BgTimeout /\ UNCHANGED <<aclVars, dpVars>>

SpecRoute == InitRoute /\ [][RouteNext]_vars

-----------------------------------------------------------------------------
(* Spellings of one command: GET requests naming DEBUG in upper and lower   *)
(* case, with and without a format extension, from peers inside and outside *)
(* 10.0.0.0/8 with and without credentials, under rule sets that list the   *)
(* command in upper or in lower case.                                       *)

\* "debug/k"
PathDebugLower == <<100, 101, 98, 117, 103, 47, 107>>

\* "DEBUG.json/k"
PathDebugJson == <<68, 69, 66, 85, 71, 46, 106, 115, 111, 110, 47, 107>>

\* "debug.raw/k"
PathDebugLowerRaw == <<100, 101, 98, 117, 103, 46, 114, 97, 119, 47, 107>>

SpellPaths ==
    {PathDebug, PathDebugLower, PathDebugRaw, PathDebugJson, PathDebugLowerRaw, PathGet,
     PathGetRawCmd}

\* debug, in lower case, is disabled for peers in 10.0.0.0/8
LowerAcl ==
    <<[ip_subnet |-> Some(Net10), basic_auth |-> None, enabled |-> <<>>,
       disabled |-> <<StrDebugLower>>]>>

SpellAcls == {TestAcl, LowerAcl}

InitSpell ==
    /\ aclRules \in SpellAcls
    /\ aclPc = "idle"
    /\ aclReq = NoAclReq
    /\ aclMatched = <<>>
    /\ aclResult = TRUE
    /\ PubSubInit
    /\ DispatchInit

SpellNext ==
    \/ \E ip \in AclIps, h \in HttpHeaders, c \in SpellPaths :
          HttpArrive(FirstHttp, "GET", ip, h, c, <<>>, NoParams) /\ UNCHANGED <<aclVars, psVars>>
    \/ HttpLeaseFail(FirstHttp) /\ UNCHANGED <<aclVars, psVars>>
    \/ HttpLeased(FirstHttp) /\ UNCHANGED <<aclVars, psVars>>
    \/ \E ok \in BOOLEAN : HttpReply(FirstHttp, ok, ROkay) /\ UNCHANGED <<aclVars, psVars>>

SpecSpell == InitSpell /\ [][SpellNext]_vars

-----------------------------------------------------------------------------
(* The ACL from the configuration: the server starts with one ACL entry     *)
(* whose `ip` is absent, a network or a bare address, and the evaluator is  *)
(* then called for peers inside and outside 10.0.0.0/8.                     *)

\* "10.0.0.0/8"
StrNet10 == <<49, 48, 46, 48, 46, 48, 46, 48, 47, 56>>

\* "10.0.0.5", an address without a prefix length
StrBareIp == <<49, 48, 46, 48, 46, 48, 46, 53>>

\* "10.0.0.5/32"
StrHost32 == <<49, 48, 46, 48, 46, 48, 46, 53, 47, 51, 50>>

AclEntries ==
    [ip : {None, Some(StrNet10), Some(StrBareIp), Some(StrHost32)},
     http_basic_auth : {None},
     enabled : {None},
     disabled : {None, Some(<<StrStar>>), Some(<<StrDEBUG>>)}]

\* a configuration file with defaults and one ACL entry
AclFiles ==
    {[http_threads |-> None, legacy_http_threads |-> None,
      pool_size_per_thread |-> None, legacy_pool_size_per_thread |-> None,
      ssl |-> None, redis_auth |-> None, database |-> 0, acl |-> Some(<<e>>)] :
        e \in AclEntries}

InitAclNew ==
    /\ AclUnused
    /\ PubSubInit
    /\ poolCfg = [pool_size_per_thread |-> None, http_threads |-> None,
                  http_max_request_size |-> None]
    /\ leased = 0
    /\ http = [r \in HttpIds |-> IdleHttp]
    /\ ws = [s \in WsIds |-> ClosedWs]
    /\ wsActs = {}
    /\ \E f \in AclFiles :
          boot = [Booted EXCEPT !.pc = "start", !.file = Some(f)]

AclNewNext ==
    \/ BootLoad
    \/ BootCreatePool
    \/ BootPubSubClient
    \/ BootAppState
    \/ \E ip \in AclIps, c \in AclCommands, h \in HttpHeaders :
          boot.pc = "serving" /\ AclCall(ip, c, h)
    \/ boot.pc = "serving" /\ AclReturn

SpecAclNew == InitAclNew /\ [][AclNewNext]_vars

-----------------------------------------------------------------------------
(* The ACL rules as section 4.3 of the specification states them *)

\* a list entry names the command: it is `*` or the command, letter case ignored
ListNames(list, command) ==
    \E k \in 1..Len(list) : list[k] = StrStar \/ EqIgnoreAsciiCase(list[k], command)

\* 4.3 step 1: the subnet (if any) contains the peer AND the credential (if
\* any) is the Basic-decoded credential of the header
MatchesPerSpec(rule, ip, auth_header) ==
    /\ (rule.ip_subnet = None \/ SubnetContains(rule.ip_subnet[1], ip))
    /\ (rule.basic_auth = None \/ AuthMatches(rule.basic_auth[1], auth_header))

\* 4.3: `allowed` after folding the first n rules, starting from TRUE
RECURSIVE FoldPerSpec(_, _, _, _, _)
FoldPerSpec(rules, n, ip, command, auth_header) ==
    IF n = 0 THEN TRUE
    ELSE LET before == FoldPerSpec(rules, n - 1, ip, command, auth_header)
             rule == rules[n]
         IN  IF ~MatchesPerSpec(rule, ip, auth_header) THEN before
             ELSE IF ListNames(rule.enabled, command) THEN TRUE
             ELSE IF ListNames(rule.disabled, command) THEN FALSE
             ELSE before

\* the rules that match the request and list the command or `*`
Deciders(rules, ip, command, auth_header) ==
    {i \in 1..Len(rules) :
        /\ MatchesPerSpec(rules[i], ip, auth_header)
        /\ (ListNames(rules[i].enabled, command) \/ ListNames(rules[i].disabled, command))}

SetMax(S) == CHOOSE m \in S : \A x \in S : x <= m

\* the decision of the last decider (enabled wins inside it), TRUE without one
LastDecision(rules, ip, command, auth_header) ==
    LET D == Deciders(rules, ip, command, auth_header)
    IN  IF D = {} THEN TRUE ELSE ListNames(rules[SetMax(D)].enabled, command)

\* C1: ACL order law. Acl::check returns the value of `allowed` after folding
\* the rules in declaration order as section 4.3 states the fold: a matching
\* rule first denies on a disabled entry naming the command, then allows on an
\* enabled entry naming it; a rule that does not match changes nothing.
C1_CheckIsFoldPerSpec ==
    aclPc = "ret" =>
        aclResult = FoldPerSpec(aclRules, Len(aclRules), aclReq.ip, aclReq.command,
                                aclReq.auth_header)

\* C2: a rule matches a request exactly when its subnet (if any) contains the
\* peer and its credential (if any) is the Basic-decoded header credential.
C2_MatchesIffSubnetAndCredential ==
    aclPc = "ret" =>
        \A i \in 1..Len(aclRules) :
            aclMatched[i] = MatchesPerSpec(aclRules[i], aclReq.ip, aclReq.auth_header)

\* C5: ACL precedence. The decision is that of the last matching rule that
\* lists the command or `*` (enabled winning over disabled inside it); without
\* such a rule the command is allowed.
C5_LastMatchingRuleDecides ==
    aclPc = "ret" =>
        aclResult = LastDecision(aclRules, aclReq.ip, aclReq.command, aclReq.auth_header)

\* The order and precedence laws relative to the `matches` values the code
\* computed: the fold itself is as section 4.3 states it, and C1 and C5 differ
\* from the code only where C2 does.
RECURSIVE FoldOverMatched(_, _, _, _)
FoldOverMatched(rules, matched, n, command) ==
    IF n = 0 THEN TRUE
    ELSE LET before == FoldOverMatched(rules, matched, n - 1, command)
         IN  IF ~matched[n] THEN before
             ELSE IF ListNames(rules[n].enabled, command) THEN TRUE
             ELSE IF ListNames(rules[n].disabled, command) THEN FALSE
             ELSE before

AclFoldOverComputedMatches ==
    aclPc = "ret" =>
        aclResult = FoldOverMatched(aclRules, aclMatched, Len(aclRules), aclReq.command)

AclDiffersOnlyWhereMatchingDiffers ==
    (aclPc = "ret"
        /\ \A i \in 1..Len(aclRules) :
              aclMatched[i] = MatchesPerSpec(aclRules[i], aclReq.ip, aclReq.auth_header))
    => /\ aclResult = FoldPerSpec(aclRules, Len(aclRules), aclReq.ip, aclReq.command,
                                  aclReq.auth_header)
       /\ aclResult = LastDecision(aclRules, aclReq.ip, aclReq.command, aclReq.auth_header)

-----------------------------------------------------------------------------
(* Claims about the multiplexer, checked under SpecPubSub *)

\* channels with at least one local receiver
LocallySubscribed == {ch \in Channels : Receivers(ch) # {}}

\* C6: upstream subscription coverage. In every reachable state the channels
\* subscribed on the upstream connection include every channel that has at
\* least one local subscriber.
C6_UpstreamCoversLocalSubscribers == LocallySubscribed \subseteq upstream

\* the background task listens on its connection and no control command is
\* pending: whatever it was going to subscribe, it has subscribed
Settled == bgPc = "listen" /\ cmdQueue = <<>> /\ lock = 0

\* C7: after the upstream stream ended and a new connection was opened, every
\* channel that was in the registry is still there and SUBSCRIBE has been
\* issued for it on the new connection.
C7_ResubscribedAfterReconnect ==
    Settled => /\ regAtConnect \subseteq DOMAIN channels
               /\ regAtConnect \subseteq subIssued

\* the payloads received from upstream for subscriber i's channel since i attached
UpstreamSince(i) ==
    SubSeq(upLog[subs[i].ch], subs[i].from + 1, Len(upLog[subs[i].ch]))

RECURSIVE SelectText(_)
SelectText(q) ==
    IF q = <<>> THEN <<>>
    ELSE IF PayloadOk(Head(q)) THEN <<Head(q)>> \o SelectText(Tail(q))
    ELSE SelectText(Tail(q))

\* Walks a receiver's log along the expected payloads from position pos: a
\* payload must be the expected one at pos, a Lagged(n) skips n expected
\* payloads.  The result is the position reached, or -1 when the log departs
\* from the expected payloads (a loss without Lagged, a duplicate, a reorder).
RECURSIVE Follow(_, _, _)
Follow(log, expected, pos) ==
    IF log = <<>> THEN pos
    ELSE LET it == Head(log)
         IN  IF it.kind = "lagged"
             THEN IF it.missed >= 1 /\ pos + it.missed <= Len(expected)
                  THEN Follow(Tail(log), expected, pos + it.missed)
                  ELSE -1
             ELSE IF pos < Len(expected) /\ expected[pos + 1] = it.data
                  THEN Follow(Tail(log), expected, pos + 1)
                  ELSE -1

CaughtUp(i) == subs[i].st = "attached" /\ subs[i].next = channels[subs[i].ch].tail + 1

HasReceiver(i) == subs[i].st = "attached"

\* C8 as stated: every subscriber receives exactly the payloads that arrived
\* from upstream for its channel after it attached, in upstream order, with a
\* Lagged signal in place of the payloads its buffer lost.
C8_EveryUpstreamPayloadDelivered ==
    \A i \in SubIds :
        HasReceiver(i) =>
            /\ Follow(subs[i].log, UpstreamSince(i), 0) >= 0
            /\ CaughtUp(i) =>
                 Follow(subs[i].log, UpstreamSince(i), 0) = Len(UpstreamSince(i))

\* C9: registry garbage collection. A channel whose last local receiver was
\* dropped has no registry entry: every entry has a receiver.
C9_EveryEntryHasReceiver == \A ch \in DOMAIN channels : Receivers(ch) # {}

-----------------------------------------------------------------------------
(* The handlers' use of the ACL and of the pool *)

\* a request the dispatcher took past the lease step
HttpAnswered(r) ==
    /\ http[r].method # "OPTIONS"
    /\ http[r].pc \in {"exec", "done"}
    /\ http[r].resp.status \notin {413, 503}

\* the evaluator's verdict on the request as section 4.3 takes it: peer IP,
\* the request's Authorization header, the command name
HttpVerdict(r) == AclCheck(aclRules, http[r].ip, http[r].cmd_name, http[r].auth_header)

\* C3: HTTP ACL enforcement. A request the evaluator denies on (peer IP,
\* Authorization header, command name) is answered 403 "Forbidden" and its
\* command is never issued; a request it allows is never answered 403.
C3_HttpAclOnIpHeaderCommand ==
    \A r \in HttpIds :
        HttpAnswered(r) =>
            IF HttpVerdict(r)
            THEN http[r].resp.status # 403
            ELSE /\ ~http[r].issued
                 /\ http[r].pc = "done"
                 /\ http[r].resp.status = 403
                 /\ http[r].resp.error = "Forbidden"

\* C4: WebSocket ACL enforcement. Every command a session issued to the
\* backend and every SUBSCRIBE it attached to the multiplexer is allowed by
\* the evaluator for the session's peer IP and its upgrade request's
\* Authorization header.
C4_WsFramesAclChecked ==
    \A a \in wsActs :
        AclCheck(aclRules, ws[a.sock].ip, a.cmd_name, ws[a.sock].auth_header)

\* pool capacity as section 4.4 states it: pool_size_per_thread x http_threads,
\* 10 and 4 when not configured
CapacityPerSpec(cfg) ==
    (IF cfg.pool_size_per_thread = None THEN 10 ELSE cfg.pool_size_per_thread[1])
        * (IF cfg.http_threads = None THEN 4 ELSE cfg.http_threads[1])

\* the tasks whose command is at the backend, and those holding a connection
InFlight == {<<"http", r>> : r \in {x \in HttpIds : http[x].pc = "exec"}}
                \cup {<<"ws", s>> : s \in {x \in WsIds : ws[x].pc = "exec"}}

Holding == InFlight \cup {<<"ws", s>> : s \in {x \in WsIds : ws[x].pc = "send_held"}}

AtLeaseStep == {<<"http", r>> : r \in {x \in HttpIds : http[x].pc = "lease"}}
                   \cup {<<"ws", s>> : s \in {x \in WsIds : ws[x].pc = "lease"}}

\* C10: pool cap. The commands in flight over HTTP and WebSocket together
\* never exceed pool_size_per_thread x http_threads (defaults 10 and 4), and
\* each of them is on a connection of the pool: the connections handed out
\* are exactly those of the tasks holding one, and no more than the capacity.
C10_InFlightWithinCapacity ==
    /\ Cardinality(InFlight) <= CapacityPerSpec(poolCfg)
    /\ leased = Cardinality(Holding)
    /\ leased <= CapacityPerSpec(poolCfg)

\* C10 witness: the pool is exhausted by the commands in flight and a further
\* request waits at the lease step
C10_Witness ==
    /\ Cardinality(InFlight) = CapacityPerSpec(poolCfg)
    /\ AtLeaseStep # {}

\* C33: a local subscribe on a new channel eventually becomes effective
\* upstream, also when the first SUBSCRIBE attempt fails.  Once the background
\* task has taken every control command and listens on the connection, no
\* later step of it subscribes a channel upstream; so every channel whose
\* command it took on this connection is subscribed upstream by then.
C33_SubscribeEventuallyEffective == Settled => subIssued \subseteq upstream

\* the Subscribe(ch) control commands not yet taken by the background task:
\* those queued and the one a subscribe call is waiting to send
PendingCommands(ch) ==
    Cardinality({k \in 1..Len(cmdQueue) : cmdQueue[k] = ch})
        + Cardinality({i \in SubIds : subs[i].st = "blocked" /\ subs[i].ch = ch})

\* C34: subscribe calls on one channel create one endpoint and send one
\* Subscribe command.  A step that registers a channel leaves exactly one
\* command for it; a step on a registered channel keeps its endpoint (the
\* entry stays and its sequence of payloads only grows, so the receivers
\* attached before stay attached to it) and sends no command.
C34_OneEndpointOneCommand ==
    [][\A ch \in Channels :
          /\ ch \in DOMAIN channels =>
                 /\ ch \in DOMAIN channels'
                 /\ channels'[ch].tail >= channels[ch].tail
                 /\ PendingCommands(ch)' <= PendingCommands(ch)
          /\ ch \notin DOMAIN channels /\ ch \in DOMAIN channels' =>
                 PendingCommands(ch)' = 1]_vars

\* C34 witness: two receivers are attached to one channel and the one
\* command sent for it is still queued
C34_Witness ==
    \E i, j \in SubIds :
        /\ i # j
        /\ subs[i].st = "attached" /\ subs[j].st = "attached"
        /\ subs[i].ch = subs[j].ch
        /\ PendingCommands(subs[i].ch) = 1

\* C35: after a WebSocket client disconnects, every receiver attached by the
\* socket is dropped and every task spawned for it terminates, also when no
\* further payload is published.  Once the session has ended and the
\* background task holds no message, either the forwarding tasks are gone
\* (their receivers dropped) and the task writing to the socket has ended, or
\* one of these tasks can take a step.
C35_TasksEndAfterDisconnect ==
    \A s \in WsIds :
        ws[s].pc = "gone" /\ bgMsg = None =>
            \/ WsSubTasks(s) = {} /\ ws[s].fwd = "ended"
            \/ ENABLED WsTaskStep(s)

\* C36: no SUBSCRIBE is ever issued on a pooled connection: no HTTP request,
\* under any method, issues to the backend a command whose name is SUBSCRIBE
\* in any letter case, and no WebSocket session does.
C36_SubscribeNeverOnPooledConnection ==
    /\ \A r \in HttpIds :
           http[r].issued => ~EqIgnoreAsciiCase(http[r].cmd_name, StrSUBSCRIBE)
    /\ \A a \in wsActs :
           a.kind = "issue" => ~EqIgnoreAsciiCase(a.cmd_name, StrSUBSCRIBE)

\* C37: a subscription is attached only after the ACL allowed SUBSCRIBE for
\* the peer: every SSE request served by a receiver, and every socket holding
\* a receiver, belongs to a peer the evaluator allows SUBSCRIBE for.
C37_AttachOnlyAfterAclAllows ==
    /\ \A r \in HttpIds :
           http[r].pc \in {"subscribing", "sse"} =>
               AclCheck(aclRules, http[r].ip, StrSUBSCRIBE, http[r].auth_header)
    /\ \A i \in SubIds :
           subs[i].holder \in WsIds /\ subs[i].st # "free" =>
               AclCheck(aclRules, ws[subs[i].holder].ip, StrSUBSCRIBE,
                        ws[subs[i].holder].auth_header)

\* the requests in progress: an HTTP request between its arrival and its
\* response or its cancellation, a WebSocket command frame between its
\* receipt and the enqueueing of its response
InProgress == {<<"http", r>> : r \in {x \in HttpIds : http[x].pc \in {"lease", "exec"}}}
                  \cup {<<"ws", s>> : s \in {x \in WsIds :
                            ws[x].pc \in {"lease", "exec", "send_held", "send_free"}}}

\* C32: every leased connection is returned on every exit path of a request
\* (success, backend error, 400, 403, client disconnect): the pool never has
\* more connections handed out than there are requests in progress, and none
\* when no request is in progress.
C32_LeasesReturnedOnEveryExit == leased <= Cardinality(InProgress)

\* C32 witness: an HTTP request whose command was issued was cancelled by the
\* client's disconnect, a WebSocket session that ran a command has ended
\* after its client disconnected, and no connection is handed out
C32_Witness ==
    /\ \E r \in HttpIds : http[r].pc = "gone" /\ http[r].issued
    /\ \E s \in WsIds : ws[s].pc = "gone" /\ ws[s].frames > 0 /\ ws[s].fwd = "ended"
    /\ leased = 0

\* C31: a task holds a leased connection only while it awaits the backend
\* reply; in particular no WebSocket session holds one while it waits for
\* room on its outbound queue.
C31_LeaseHeldOnlyAwaitingBackend == Holding \subseteq InFlight

-----------------------------------------------------------------------------
(* The dispatcher's steps, section 4.5, checked under SpecHttp *)

\* 4.1: the command name is the first path segment without its format
\* extension; it is empty when the segment is empty or only an extension
NamePerSpec(command) ==
    LET first == Split(command, ByteSlash)[1]
        dot == RFind(first, ByteDot)
    IN  IF dot > 0 THEN SubSeq(first, 1, dot - 1) ELSE first

EmptyCommandPerSpec(command) == NamePerSpec(command) = <<>>

\* a request the dispatcher has answered
HttpDone(r) ==
    /\ http[r].method # "OPTIONS"
    /\ http[r].pc = "done"
    /\ http[r].resp.status # 413

\* C11: dispatcher step order. The status of a response is that of the first
\* failing step in the order lease, parse, ACL, execute: 503, else 400 for an
\* empty command, else 403 when the ACL denies, else 500 or 200 as the backend
\* replied; a request that is answered was answered once.
C11_StatusOfFirstFailingStep ==
    \A r \in HttpIds :
        HttpDone(r) =>
            \/ http[r].resp.status = 503 /\ ~http[r].issued
            \/ /\ EmptyCommandPerSpec(http[r].command)
               /\ http[r].resp.status = 400
               /\ ~http[r].issued
            \/ /\ ~EmptyCommandPerSpec(http[r].command)
               /\ ~HttpVerdict(r)
               /\ http[r].resp.status = 403
               /\ ~http[r].issued
            \/ /\ ~EmptyCommandPerSpec(http[r].command)
               /\ HttpVerdict(r)
               /\ http[r].resp.status \in {200, 500}
               /\ http[r].issued

\* C12: a request whose command name is empty is answered 400 "Empty command"
\* and no command is issued for it.
C12_EmptyCommandIs400 ==
    \A r \in HttpIds :
        (HttpAnswered(r) /\ EmptyCommandPerSpec(http[r].command)) =>
            /\ ~http[r].issued
            /\ http[r].pc = "done"
            /\ http[r].resp.status = 400
            /\ http[r].resp.error = "Empty command"

\* the arguments of the backend command as section 4.1 states them: the path
\* arguments, then the body of a POST or PUT when it is not empty, verbatim
ArgsPerSpec(r) ==
    ParseCommand(http[r].command, None).args
        \o (IF http[r].method \in {"POST", "PUT"} /\ http[r].body # None
                /\ http[r].body[1] # <<>>
            THEN <<http[r].body[1]>> ELSE <<>>)

\* C20: the body of a POST or PUT is the last argument of the issued command,
\* byte for byte; an empty body and a GET add no argument.
C20_BodyAppendedVerbatim ==
    \A r \in HttpIds : http[r].issued => http[r].args = ArgsPerSpec(r)

\* C21: every response of the dispatcher carries
\* Access-Control-Allow-Origin: *, whatever its status (200, 400, 403, 500,
\* 503), and so does the response to OPTIONS.
C21_EveryResponseHasCors ==
    \A r \in HttpIds :
        (HttpDone(r) \/ (http[r].method = "OPTIONS" /\ http[r].pc = "done"))
            => http[r].resp.cors

\* the cap on request bodies: http_max_request_size, 128 MiB when unset
LimitPerSpec(cfg) ==
    IF cfg.http_max_request_size = None THEN 134217728 ELSE cfg.http_max_request_size[1]

\* C28 as stated: a request, of whatever method, whose body exceeds the cap
\* is answered 413 and its command is never issued.
C28_OversizedRequestRejected ==
    \A r \in HttpIds :
        (http[r].pc # "idle" /\ Len(http[r].req_body) > LimitPerSpec(poolCfg)) =>
            /\ ~http[r].issued
            /\ http[r].pc = "done"
            /\ http[r].resp.status = 413

\* C28: a POST or PUT whose body exceeds the cap is answered 413, no
\* connection is leased for it and its command is never issued; a POST or PUT
\* within the cap is never answered 413.
C28_OversizedPostOrPutRejected ==
    \A r \in HttpIds :
        (http[r].pc # "idle" /\ http[r].method \in {"POST", "PUT"}) =>
            IF Len(http[r].req_body) > LimitPerSpec(poolCfg)
            THEN /\ ~http[r].issued
                 /\ http[r].pc = "done"
                 /\ http[r].resp.status = 413
            ELSE http[r].resp.status # 413

\* C28 witness: with the cap configured, a PUT one byte over it was answered
\* 413
C28_Witness ==
    \E r \in HttpIds :
        /\ poolCfg.http_max_request_size = Some(CfgMaxRequestSize)
        /\ http[r].method = "PUT"
        /\ Len(http[r].req_body) = CfgMaxRequestSize + 1
        /\ http[r].pc = "done"
        /\ http[r].resp.status = 413
        /\ ~http[r].issued

-----------------------------------------------------------------------------
(* Format selection, section 4.1, checked under SpecParse *)

HasDot(s) == \E k \in 1..Len(s) : s[k] = 46

\* the position of the last dot of a text that has one
LastDot(s) == SetMax({k \in 1..Len(s) : s[k] = 46})

BeforeLastDot(s) == SubSeq(s, 1, LastDot(s) - 1)

AfterLastDot(s) == SubSeq(s, LastDot(s) + 1, Len(s))

\* 4.1: raw gives RAW, msg or msgpack gives MSGPACK, anything else JSON
FormatPerSpec(ext) ==
    IF ext = StrRaw THEN "Raw"
    ELSE IF ext \in {StrMsg, StrMsgpack} THEN "MessagePack"
    ELSE "Json"

\* the command segment and the path arguments of a request
Segment(r) == Split(http[r].command, ByteSlash)[1]

PathArgs(r) == Tail(Split(http[r].command, ByteSlash))

\* the suffixes recognised on the final argument
KnownSuffixes == {StrRaw, StrMsg, StrMsgpack, StrJson}

\* the final path argument ends in a recognised suffix
FinalArgHasSuffix(r) ==
    /\ PathArgs(r) # <<>>
    /\ HasDot(PathArgs(r)[Len(PathArgs(r))])
    /\ AfterLastDot(PathArgs(r)[Len(PathArgs(r))]) \in KnownSuffixes

\* the format the path selects
ExtensionFormatPerSpec(r) ==
    IF HasDot(Segment(r)) THEN FormatPerSpec(AfterLastDot(Segment(r)))
    ELSE IF FinalArgHasSuffix(r)
    THEN FormatPerSpec(AfterLastDot(PathArgs(r)[Len(PathArgs(r))]))
    ELSE "Json"

\* C22: when the command segment contains a dot, the text after its last dot
\* selects the format (unless ?type names one), the name that is checked by
\* the ACL, sent to the backend and used as the response key is the text
\* before that dot, and the arguments are the path arguments, unmodified.
C22_CommandExtensionSelectsFormat ==
    \A r \in HttpIds :
        (HttpAnswered(r) /\ HasDot(Segment(r))) =>
            /\ http[r].cmd_name = BeforeLastDot(Segment(r))
            /\ http[r].args = PathArgs(r)
            /\ http[r].params.type = None =>
                  http[r].format = FormatPerSpec(AfterLastDot(Segment(r)))
            /\ http[r].issued = AclCheck(aclRules, http[r].ip, BeforeLastDot(Segment(r)), None)
            /\ http[r].resp.status = 403 <=> ~http[r].issued
            /\ (http[r].resp.status = 200 /\ http[r].format # "Raw") =>
                  http[r].resp.key = BeforeLastDot(Segment(r))

\* C22 witness: GET /GET.x.msg/k was answered in MessagePack under the key
\* "GET.x"
C22_Witness ==
    \E r \in HttpIds :
        /\ http[r].command = PathGetTwoDots
        /\ http[r].params.type = None
        /\ http[r].pc = "done"
        /\ http[r].resp.status = 200
        /\ http[r].resp.ctype = "application/x-msgpack"
        /\ http[r].resp.key = <<71, 69, 84, 46, 120>>

\* C23: when the command segment has no dot, only the final path argument
\* is inspected: a suffix raw, msg, msgpack or json is cut off with its dot
\* and selects the format (unless ?type names one); otherwise the argument
\* is passed unchanged and the format stays JSON. No other argument is
\* modified.
C23_FinalArgumentSuffix ==
    \A r \in HttpIds :
        (HttpAnswered(r) /\ ~HasDot(Segment(r))) =>
            LET n == Len(PathArgs(r))
            IN  /\ Len(http[r].args) = n
                /\ \A k \in 1..(n - 1) : http[r].args[k] = PathArgs(r)[k]
                /\ n > 0 =>
                      http[r].args[n] = IF FinalArgHasSuffix(r)
                                        THEN BeforeLastDot(PathArgs(r)[n])
                                        ELSE PathArgs(r)[n]
                /\ http[r].params.type = None =>
                      http[r].format = IF FinalArgHasSuffix(r)
                                       THEN FormatPerSpec(AfterLastDot(PathArgs(r)[n]))
                                       ELSE "Json"

\* C23 witness: GET /GET/a.raw/k.json was sent as GET a.raw k, in JSON
C23_Witness ==
    \E r \in HttpIds :
        /\ http[r].command = PathArgJson
        /\ http[r].params.type = None
        /\ http[r].issued
        /\ http[r].args = <<<<97, 46, 114, 97, 119>>, <<107>>>>
        /\ http[r].format = "Json"

-----------------------------------------------------------------------------
(* Response encoding, sections 4.1 and 4.2, checked under SpecFormat *)

\* [A-Za-z_]
IsIdentStart(b) == (b >= 65 /\ b <= 90) \/ (b >= 97 /\ b <= 122) \/ b = 95

\* [A-Za-z0-9_.]
IsIdentRest(b) == IsIdentStart(b) \/ (b >= 48 /\ b <= 57) \/ b = 46

\* [A-Za-z_][A-Za-z0-9_.]*
ValidCallback(s) ==
    /\ Len(s) > 0
    /\ IsIdentStart(s[1])
    /\ \A k \in 2..Len(s) : IsIdentRest(s[k])

\* the callback a request names with ?cb= or ?callback=
RequestedCallback(params) == IF params.cb # None THEN params.cb ELSE params.callback

\* 4.1, 4.2: the wrapper of a response
CallbackPerSpec(r) ==
    LET cb == RequestedCallback(http[r].params)
    IN  IF cb # None /\ ValidCallback(cb[1]) /\ http[r].format = "Json" THEN cb ELSE None

\* C25: a successful response is wrapped in the callback given by ?cb= or
\* ?callback= exactly when the callback matches [A-Za-z_][A-Za-z0-9_.]* and
\* the format is JSON; any other callback is ignored.
C25_JsonpCallbackWrapsWhenValid ==
    \A r \in HttpIds :
        (HttpDone(r) /\ http[r].resp.status = 200) =>
            http[r].resp.cb = CallbackPerSpec(r)

\* the lexical form of a scalar; nothing for null
LexicalPerSpec(v) ==
    CASE v.t = "String" -> v.s
      [] v.t = "Number" -> NumberToString(v.n)
      [] v.t = "Bool" -> BoolToString(v.n)
      [] OTHER -> <<>>

\* the lines of an array, an element that is an array giving its elements
RECURSIVE LinesPerSpec(_)
LinesPerSpec(a) ==
    IF a = <<>> THEN <<>>
    ELSE (IF a[1].t = "Array"
          THEN [k \in 1..Len(a[1].a) |-> LexicalPerSpec(a[1].a[k])]
          ELSE <<LexicalPerSpec(a[1])>>) \o LinesPerSpec(Tail(a))

\* 4.2: the body in RAW
RawPerSpec(value) ==
    IF value.t = "Array" THEN JoinLines(LinesPerSpec(value.a)) ELSE LexicalPerSpec(value)

\* C26: the RAW body of a reply is the lexical form of a scalar, empty for
\* null, and the elements of an array joined with a newline, an element that
\* is itself an array contributing its own elements.
C26_RawCollapsesNestedArrays ==
    \A r \in HttpIds :
        (HttpDone(r) /\ http[r].resp.status = 200 /\ http[r].format = "Raw") =>
            http[r].resp.text = RawPerSpec(RedisValueToJson(http[r].reply))

-----------------------------------------------------------------------------
(* Configuration, section 3 and 4.6, checked under SpecConfig *)

\* redis_auth is absent, a legacy password or a pair
CredentialsStated(cfg) ==
    cfg.redis_auth # None /\ cfg.redis_auth[1].kind = "ACL" => Len(cfg.redis_auth[1].creds) = 2

\* `:password@` for a legacy password, `user:password@` for a pair
CredentialsPerSpec(cfg) ==
    IF cfg.redis_auth = None THEN <<>>
    ELSE LET creds == cfg.redis_auth[1].creds
         IN  (IF Len(creds) = 2 THEN creds[1] ELSE <<>>) \o <<58>> \o creds[Len(creds)] \o <<64>>

\* the URL of a backend connection
UrlPerSpec(cfg) ==
    (IF cfg.ssl = Some([enabled |-> TRUE]) THEN StrRediss ELSE StrRedis)
        \o StrSchemeSep \o CredentialsPerSpec(cfg) \o RedisHost \o <<58>>
        \o NumberToString(RedisPort) \o <<47>> \o NumberToString(cfg.database)

\* C27: the URL of the pooled connections and the URL of the pub/sub
\* upstream both use the TLS scheme exactly when ssl.enabled is true, carry
\* the configured credentials, and carry the database index as the path.
C27_BackendUrlsCarryCredentials ==
    (boot.pc = "serving" /\ boot.file # None /\ CredentialsStated(boot.file[1])) =>
        /\ boot.pool_url = Some(UrlPerSpec(boot.file[1]))
        /\ boot.pubsub_url = Some(UrlPerSpec(boot.file[1]))

\* C29: after loading, http_threads is the canonical value when the file
\* has the canonical key and the legacy value only when it has not; the
\* same for pool_size_per_thread; both legacy fields are cleared.
C29_LegacyAliasesOnlyWhenCanonicalAbsent ==
    boot.config # None =>
        LET f == boot.file[1]
            c == boot.config[1]
        IN  /\ c.http_threads = IF f.http_threads # None THEN f.http_threads
                                ELSE f.legacy_http_threads
            /\ c.pool_size_per_thread = IF f.pool_size_per_thread # None
                                        THEN f.pool_size_per_thread
                                        ELSE f.legacy_pool_size_per_thread
            /\ c.legacy_http_threads = None
            /\ c.legacy_pool_size_per_thread = None

\* C29 witness: a file with `threads` but no `http_threads`, and with both
\* `pool_size` and `pool_size_per_thread`, has been loaded and the pool
\* created with the size the canonical and the aliased key give
C29_Witness ==
    /\ boot.pc = "pooled"
    /\ boot.file[1].http_threads = None
    /\ boot.file[1].legacy_http_threads = Some(CfgHttpThreads + 1)
    /\ boot.file[1].pool_size_per_thread = Some(CfgPoolSizePerThread)
    /\ boot.file[1].legacy_pool_size_per_thread # None
    /\ boot.config[1].http_threads = Some(CfgHttpThreads + 1)
    /\ boot.pool_size = CfgPoolSizePerThread * (CfgHttpThreads + 1)

-----------------------------------------------------------------------------
(* The registry lock and the control channel, checked under SpecPubSub *)

\* a subscribe call holds the write lock while its send waits for room on
\* the full control channel
SubscribeBlockedOnFullChannel ==
    \E i \in SubIds :
        /\ subs[i].st = "blocked"
        /\ lock = i
        /\ Len(cmdQueue) = CmdQueueCap

\* C30: no state is reachable in which a subscribe call holds the registry
\* write lock while blocked sending on the full control channel and the
\* background task, the only consumer of that channel, waits for the
\* registry read lock to dispatch a message.
C30_NoLockChannelDeadlock ==
    ~(bgPc = "readlock" /\ SubscribeBlockedOnFullChannel)

-----------------------------------------------------------------------------
(* SSE streams and upstream loss, checked under SpecPubSub *)

\* 4.6, delivery to SSE: a payload is one `data:` event, a Lagged signal is one
\* event `event: error`, `data: lagged`
RECURSIVE SseEventsPerSpec(_)
SseEventsPerSpec(log) ==
    IF log = <<>> THEN <<>>
    ELSE (IF Head(log).kind = "msg"
          THEN <<[event |-> None, data |-> Head(log).data]>>
          ELSE IF Head(log).kind = "lagged"
          THEN <<[event |-> Some(StrError), data |-> StrLagged]>>
          ELSE <<>>) \o SseEventsPerSpec(Tail(log))

SseStreams == {i \in SubIds : subs[i].holder = 0 /\ subs[i].st \in {"attached", "ended"}}

\* C16: on an SSE stream every received payload is exactly one data event and
\* every Lagged signal exactly one event error/lagged, in the order received;
\* the stream is open after a Lagged signal and ends by itself only when the
\* endpoint is closed.
C16_SseOneEventPerItem ==
    \A i \in SseStreams :
        /\ subs[i].out = SseEventsPerSpec(subs[i].log)
        /\ subs[i].st = "ended" =>
              /\ subs[i].ch \notin DOMAIN channels
              /\ subs[i].log[Len(subs[i].log)].kind = "closed"

\* C16 witness: a stream that yielded the lagged event and after it a payload
C16_Witness ==
    \E i \in SseStreams :
        /\ subs[i].st = "attached"
        /\ Len(subs[i].out) = 2
        /\ subs[i].out[1] = [event |-> Some(StrError), data |-> StrLagged]
        /\ subs[i].out[2].event = None
        /\ subs[i].out[2].data = subs[i].log[2].data

LiveSubs == {i \in SubIds : subs[i].st \in {"attached", "blocked", "sending"}}

\* C18: upstream loss is hidden. Whatever happens to the upstream connection,
\* the endpoint of every live receiver stays in the registry, no receiver has
\* observed Closed or ended, and the background task is connecting, sleeping
\* before the next attempt, or serving a connection: a failed attempt is
\* followed by the sleep and the sleep by a new attempt.
C18_UpstreamLossHidden ==
    /\ \A i \in LiveSubs : subs[i].ch \in DOMAIN channels
    /\ \A i \in SubIds :
          /\ subs[i].st # "ended"
          /\ \A k \in 1..Len(subs[i].log) : subs[i].log[k].kind # "closed"
    /\ bgPc \in {"connect", "sleep", "commands", "listen", "readlock"}
    /\ bgPc = "connect" => ENABLED BgConnectOk /\ ENABLED BgConnectFail
    /\ bgPc = "sleep" => ENABLED BgSleepEnds

\* C18 witness: the task sleeps after a failed attempt to reopen the upstream,
\* while a receiver that already got a payload is attached
C18_Witness ==
    /\ bgPc = "sleep"
    /\ \E i \in SubIds :
          /\ subs[i].st = "attached"
          /\ subs[i].log # <<>>
          /\ subs[i].log[1].kind = "msg"

\* what a session has handed to its outbound queue and the socket has not
\* written yet, oldest first
WsUnwritten(s) ==
    ws[s].outq \o (IF ws[s].pending = None THEN <<>> ELSE <<ws[s].pending[1]>>)

IsResponse(m) == m.frame > 0

WsResponses(s) == SelectSeq(WsUnwritten(s), IsResponse)

\* a frame that carries a command: a text frame holding a non-empty array of
\* strings
IsCommandFrame(f) == ~f.binary /\ f.parsed # None /\ f.parsed # Some(<<>>)

\* C13 as stated: responses leave in the order of their frames and every
\* response, error responses included, is keyed by its frame's command name
C13_EveryResponseKeyedByCommand ==
    \A s \in WsIds :
        LET R == WsResponses(s)
        IN  \A j \in 1..Len(R) :
                /\ R[j].frame > ws[s].written
                /\ j > 1 => R[j - 1].frame < R[j].frame
                /\ R[j].key = ws[s].rcvd[R[j].frame].parsed[1][1]

\* C13: on one socket the responses leave in the order of their frames: a
\* response not yet written belongs to a frame later than every response that
\* was written and than every response queued before it. A reply is keyed by
\* the command name of its own frame; a failure (no pool connection, backend
\* error) is the object {"error": text}.
C13_ResponsesInFrameOrder ==
    \A s \in WsIds :
        LET R == WsResponses(s)
        IN  \A j \in 1..Len(R) :
                /\ R[j].frame > ws[s].written
                /\ R[j].frame <= ws[s].frames
                /\ j > 1 => R[j - 1].frame < R[j].frame
                /\ IsCommandFrame(ws[s].rcvd[R[j].frame])
                /\ R[j].kind = "reply" => R[j].key = ws[s].rcvd[R[j].frame].parsed[1][1]
                /\ R[j].kind = "error" => R[j].key = StrError

\* C13 witness: SET then GET on one socket; the SET reply is written and the
\* GET reply is next in the queue
C13_Witness ==
    \E s \in WsIds :
        /\ ws[s].frames = 2
        /\ ws[s].rcvd[1].parsed = Some(<<StrSET, StrK>>)
        /\ ws[s].rcvd[2].parsed = Some(<<StrGET, StrK>>)
        /\ ws[s].written = 1
        /\ ws[s].outq # <<>>
        /\ Head(ws[s].outq) = [kind |-> "reply", key |-> StrGET, value |-> <<>>, frame |-> 2]

\* the frames a session drops
IsDroppedFrame(f) == f.binary \/ f.parsed = None \/ f.parsed = Some(<<>>)

\* C19: the step that receives a frame which is binary, is no JSON array of
\* strings or is the empty array queues no response, leases no connection,
\* issues no command, and leaves the session waiting for the next frame.
C19_DroppedFrameHasNoEffect ==
    [][\A s \in WsIds :
          (/\ ws'[s].frames = ws[s].frames + 1
           /\ IsDroppedFrame(ws'[s].rcvd[ws'[s].frames]))
          => /\ ws'[s].pc = "recv"
             /\ ws'[s].outq = ws[s].outq
             /\ ws'[s].pending = ws[s].pending
             /\ ws'[s].written = ws[s].written
             /\ leased' = leased
             /\ wsActs' = wsActs]_vars

\* C19 witness: after a dropped frame the session received a command frame and
\* its command is on its way to the backend
C19_Witness ==
    \E s \in WsIds :
        /\ ws[s].frames = 2
        /\ IsDroppedFrame(ws[s].rcvd[1])
        /\ IsCommandFrame(ws[s].rcvd[2])
        /\ ws[s].pc = "exec"

-----------------------------------------------------------------------------
(* Claims about WebSocket subscriptions, checked under SpecWsPubSub *)

\* the subscriptions held by WebSocket sessions
WsSubs == {i \in SubIds : subs[i].st # "free" /\ subs[i].holder \in WsIds}

\* 4.6, delivery to WebSocket: the frame for a payload of channel ch is
\* {"<command>": ["message", ch, payload]}
WsPubSubFramePerSpec(command, ch, payload) ==
    [key |-> command, value |-> <<StrMessage, ch, payload>>]

\* C14: every frame a WebSocket subscription forwards for a payload of its
\* channel is {"SUBSCRIBE": ["message", channel, payload]}.
C14_WsPubSubFrameFormat ==
    \A i \in WsSubs :
        \A k \in 1..Len(subs[i].out) :
            LET want == WsPubSubFramePerSpec(StrSUBSCRIBE, subs[i].ch, subs[i].log[k].data)
            IN  /\ subs[i].out[k].key = want.key
                /\ subs[i].out[k].value = want.value

\* the payloads a subscription has forwarded to its socket's queue
WsForwarded(i) == [k \in 1..Len(subs[i].out) |-> subs[i].out[k].value]

\* C15: a payload published to the channel after the subscription was
\* attached reaches the socket as a frame whose `message` member is the
\* payload: once the subscription has nothing left to receive, it has
\* forwarded every text payload that arrived for its channel, in order.
C15_PublishedPayloadReachesSocket ==
    \A i \in WsSubs :
        (subs[i].st = "ended" \/ CaughtUp(i)) =>
            /\ WsForwarded(i) = SelectText(UpstreamSince(i))
            /\ \A k \in 1..Len(subs[i].out) : subs[i].out[k].key = StrMessage

\* C17: lag does not sever a WebSocket subscription: a subscription that
\* received Lagged goes on, and the signal went to the socket as a frame of
\* its own.
C17_WsLagKeepsSubscription ==
    \A i \in WsSubs :
        \A k \in 1..Len(subs[i].log) :
            subs[i].log[k].kind = "lagged" =>
                /\ subs[i].st # "ended"
                /\ Len(subs[i].out) = Len(subs[i].log)

-----------------------------------------------------------------------------
(* The spelling of a command and the ACL, checked under SpecSpell *)

ToAsciiUpper(b) == IF b >= 97 /\ b <= 122 THEN b - 32 ELSE b

\* the command a first path segment names, whatever its spelling: the text
\* before its format extension, in upper case
CanonicalCommand(segment) ==
    LET name == IF HasDot(segment) THEN BeforeLastDot(segment) ELSE segment
    IN  [k \in 1..Len(name) |-> ToAsciiUpper(name[k])]

\* C38: the HTTP ACL decision does not depend on how the command is spelled.
\* A request is answered 403 exactly when the evaluator denies, for the same
\* peer and credentials, the command in its canonical spelling; so DEBUG,
\* debug, DEBUG.raw and DEBUG.json get one decision.
C38_DecisionIgnoresSpelling ==
    \A r \in HttpIds :
        HttpAnswered(r) =>
            (http[r].resp.status = 403)
                = ~AclCheck(aclRules, http[r].ip, CanonicalCommand(Segment(r)),
                            HandlerAuthHeader(r))

\* C38 witness: a request that names the command in lower case with a format
\* extension was denied under a rule set that lists it in upper case
C38_Witness ==
    \E r \in HttpIds :
        /\ http[r].pc = "done"
        /\ http[r].resp.status = 403
        /\ Segment(r) # CanonicalCommand(Segment(r))
        /\ HasDot(Segment(r))
        /\ ~HasDot(CanonicalCommand(Segment(r)))
        /\ \E k \in 1..Len(aclRules) : aclRules[k].disabled = <<StrDEBUG>>

-----------------------------------------------------------------------------
(* The `ip` of an ACL entry, checked under SpecAclNew *)

\* the peers an `ip` text admits: those of the network it names, the one
\* address when it names a bare address, none when it names neither
IpAdmits(text, ip) ==
    IF ParseIpNet(text) # None THEN SubnetContains(ParseIpNet(text)[1], ip)
    ELSE IF ParseIpv4(text) # None THEN ip = ParseIpv4(text)[1]
    ELSE FALSE

\* C39: a rule with an `ip` value never matches a peer outside it, and an
\* `ip` that is no CIDR network (a bare address) does not make a rule without
\* IP restriction.  For every entry configured with an `ip`: the rule built
\* from it has an IP restriction, and in every evaluation it matches only
\* peers the `ip` admits.
C39_IpRuleNeverMatchesOutside ==
    boot.pc = "serving" /\ boot.config # None /\ boot.config[1].acl # None =>
        \A k \in 1..Len(boot.config[1].acl[1]) :
            boot.config[1].acl[1][k].ip # None =>
                /\ aclRules[k].ip_subnet # None
                /\ aclPc = "ret" /\ aclMatched[k] =>
                       IpAdmits(boot.config[1].acl[1][k].ip[1], aclReq.ip)

=============================================================================
